---- MODULE Spec2Model ----
(***************************************************************************)
(* A model of src/lib/salesforce.ts: the Bulk API query orchestrator       *)
(* executeBulkQuery (one run of the async function, one action per         *)
(* continuation between two awaits) and the CSV decoder it calls.          *)
(*                                                                         *)
(* Text is modelled as a sequence of one-character strings, so that the    *)
(* decoder scans it character by character as the code does.               *)
(***************************************************************************)
EXTENDS Integers, Sequences, FiniteSets, TLC

(***************************************************************************)
(* Bounds of the model and constants of the program.                       *)
(***************************************************************************)

\* Longest results body (in characters) the remote end answers with.
MaxCsvLen == 5

\* salesforce.ts:138  const maxAttempts = 60
maxAttempts == 60

\* salesforce.ts:141  setTimeout(resolve, 5000), in milliseconds
pollInterval == 5000

\* Characters of a results body: two field characters and "\n", the line
\* ending the job asks for (lineEnding: 'LF') and white space to trim().
CsvAlphabet == {"a", "1", "\n"}

\* Ids the job-submission response can carry (job.id).
JobIds == {"750A", "750B"}

\* response.statusText of a non-success response.
StatusTexts == {"Unauthorized", "Server Error"}

\* statusData.state as the status endpoint reports it: the three states the
\* code compares it with ('InProgress', 'Failed', 'JobComplete') and the
\* other states of a Bulk API job.
JobStates == {"InProgress", "JobComplete", "Failed", "Aborted", "UploadComplete"}

\* statusData.stateMessage when the field is there: empty or not.
StateMessages == {"", "quota exceeded"}

\* The body of a status response.  stateMessage is an optional field; the
\* code reads it only from a body whose state is Failed (salesforce.ts:157),
\* so only those bodies are drawn with and without it.
StatusBodies ==
    [state : JobStates] \cup [state : {"Failed"}, stateMessage : StateMessages]

\* No error thrown, no value returned (yet).
None == [kind |-> "none"]

VARIABLES
    pc,          \* where the run of executeBulkQuery stands
    jobId,       \* const jobId = job.id
    jobStatus,   \* let jobStatus
    attempts,    \* let attempts
    thrown,      \* the Error the run rejected with, or None
    result,      \* the value the run resolved with, or None
    resultsText, \* const resultsText: the body of the results response
    requests,    \* log: every network call issued, in order
    polled,      \* log: every status response received, in order
    waits,       \* log: the delay of every timer that has fired, in order
    resultsResponse, \* log: the results response received, or None
    run,             \* which run of executeBulkQuery the variables above hold
    parked,          \* the other run: its variables while it is at an await
    metadataCache,   \* const metadataCache = new Map<string, CachedMetadata>()
    now,             \* the clock read by Date.now()
    fetches,         \* the calls of getObjectMetadataWithCache under way
    lastCall         \* log: the last cache operation called and its outcome

\* The variables of a run of executeBulkQuery.
bulkVars == <<pc, jobId, jobStatus, attempts, thrown, result, resultsText,
              requests, polled, waits, resultsResponse, run, parked>>

\* The variables of the metadata cache and its callers.
cacheVars == <<metadataCache, now, fetches, lastCall>>

vars == <<bulkVars, cacheVars>>

(***************************************************************************)
(* Text helpers: the String methods the decoder calls.                     *)
(***************************************************************************)

\* White space as String.prototype.trim sees it.
IsSpace(c) == c \in {" ", "\n", "\t", "\r"}

RECURSIVE TrimStart(_)
TrimStart(s) ==
    IF s = <<>> \/ ~IsSpace(Head(s)) THEN s ELSE TrimStart(Tail(s))

RECURSIVE TrimEnd(_)
TrimEnd(s) ==
    IF s = <<>> \/ ~IsSpace(s[Len(s)]) THEN s
    ELSE TrimEnd(SubSeq(s, 1, Len(s) - 1))

\* String.prototype.trim
Trim(s) == TrimEnd(TrimStart(s))

\* String.prototype.split(sep) for a one-character separator: the pieces
\* between separators, <<"">> for the empty string.
RECURSIVE Split(_, _)
Split(s, sep) ==
    IF \E i \in 1..Len(s) : s[i] = sep
    THEN LET i == CHOOSE k \in 1..Len(s) :
                      s[k] = sep /\ \A j \in 1..(k - 1) : s[j] # sep
         IN  <<SubSeq(s, 1, i - 1)>> \o Split(SubSeq(s, i + 1, Len(s)), sep)
    ELSE <<s>>

(***************************************************************************)
(* Numbers.  A finite number is the record [neg, int, frac] of its decimal *)
(* expansion (int without leading zeros, frac without trailing zeros),     *)
(* an infinity the record [inf, neg], NaN the record [nan |-> TRUE].  A    *)
(* numeric literal is an optional sign and either Infinity or digits with  *)
(* an optional fraction and an optional exponent.  The expansion is exact: *)
(* the texts used have far fewer than the 15 significant digits and stay   *)
(* far inside the exponent range that a double holds exactly enough to     *)
(* print the same digits again.  Radix prefixes (0x, 0b, 0o) are not       *)
(* read: such a text fails the round trip of the decoder either way.       *)
(***************************************************************************)

NaN == [nan |-> TRUE]

isNaN(n) == n = NaN

IsDigit(c) == c \in {"0", "1", "2", "3", "4", "5", "6", "7", "8", "9"}

\* The end (exclusive) of the run of digits of s that starts at i.
RECURSIVE DigitsEnd(_, _)
DigitsEnd(s, i) ==
    IF i <= Len(s) /\ IsDigit(s[i]) THEN DigitsEnd(s, i + 1) ELSE i

RECURSIVE StripLeadingZeros(_)
StripLeadingZeros(d) ==
    IF d # <<>> /\ Head(d) = "0" THEN StripLeadingZeros(Tail(d)) ELSE d

RECURSIVE StripTrailingZeros(_)
StripTrailingZeros(d) ==
    IF d # <<>> /\ d[Len(d)] = "0"
    THEN StripTrailingZeros(SubSeq(d, 1, Len(d) - 1)) ELSE d

\* The value of a digit and of a run of digits.
DigitValue(c) ==
    CASE c = "0" -> 0 [] c = "1" -> 1 [] c = "2" -> 2 [] c = "3" -> 3
      [] c = "4" -> 4 [] c = "5" -> 5 [] c = "6" -> 6 [] c = "7" -> 7
      [] c = "8" -> 8 [] c = "9" -> 9

RECURSIVE DigitsValue(_)
DigitsValue(d) ==
    IF d = <<>> THEN 0
    ELSE 10 * DigitsValue(SubSeq(d, 1, Len(d) - 1)) + DigitValue(d[Len(d)])

\* The digits of a natural number.
RECURSIVE NatDigits(_)
NatDigits(n) ==
    LET unit == CHOOSE c \in {"0", "1", "2", "3", "4", "5", "6", "7", "8", "9"} :
                    DigitValue(c) = n % 10
    IN  IF n < 10 THEN <<unit>> ELSE Append(NatDigits(n \div 10), unit)

Zeros(n) == [i \in 1..n |-> "0"]

\* The decimal exponents past which a double is infinite, and zero.
MaxExponent == 308
MinExponent == -324

\* digits with the decimal point after the first `point` of them (before
\* the first when point <= 0), as an expansion; a value too large for a
\* double is an infinity and one too small is zero.  (The values a double
\* rounds, next to these two ends, take texts longer than any used.)
Expansion(neg, digits, point) ==
    LET int   == IF point <= 0 THEN <<>>
                 ELSE IF point >= Len(digits)
                      THEN digits \o Zeros(point - Len(digits))
                      ELSE SubSeq(digits, 1, point)
        frac  == IF point <= 0 THEN Zeros(-point) \o digits
                 ELSE IF point >= Len(digits) THEN <<>>
                      ELSE SubSeq(digits, point + 1, Len(digits))
        \* the exponent of the first significant digit
        first == point - (Len(digits) - Len(StripLeadingZeros(digits))) - 1
        zero  == StripLeadingZeros(digits) = <<>>
    IN  IF ~zero /\ first > MaxExponent THEN [inf |-> TRUE, neg |-> neg]
        ELSE IF zero \/ first < MinExponent
        THEN [neg |-> neg, int |-> <<>>, frac |-> <<>>]
        ELSE [neg  |-> neg,
              int  |-> StripLeadingZeros(int),
              frac |-> StripTrailingZeros(frac)]

InfinityText == <<"I", "n", "f", "i", "n", "i", "t", "y">>

\* s reads Infinity from position i on.
startsWithInfinity(s, i) ==
    i + 7 <= Len(s) /\ SubSeq(s, i, i + 7) = InfinityText

\* The longest prefix of s that is a decimal literal: its length (0 when
\* there is none) and its value.
ScanDecimal(s) ==
    LET signed   == s # <<>> /\ Head(s) \in {"+", "-"}
        neg      == signed /\ Head(s) = "-"
        i0       == IF signed THEN 2 ELSE 1
        i1       == DigitsEnd(s, i0)
        dotted   == i1 <= Len(s) /\ s[i1] = "."
        i2       == IF dotted THEN DigitsEnd(s, i1 + 1) ELSE i1
        intPart  == SubSeq(s, i0, i1 - 1)
        fracPart == IF dotted THEN SubSeq(s, i1 + 1, i2 - 1) ELSE <<>>
        \* "1." and ".5" are literals, "." alone is not
        valid    == intPart # <<>> \/ fracPart # <<>>
        \* "1." ends after the dot, "1.a" too; "1" before it
        end      == IF dotted /\ valid THEN i2 - 1 ELSE i1 - 1
        \* the exponent part: e or E, an optional sign and digits
        e0       == end + 1
        marked   == e0 <= Len(s) /\ s[e0] \in {"e", "E"}
        esigned  == marked /\ e0 + 1 <= Len(s) /\ s[e0 + 1] \in {"+", "-"}
        e1       == IF esigned THEN e0 + 2 ELSE e0 + 1
        e2       == IF marked THEN DigitsEnd(s, e1) ELSE e1
        scaled   == marked /\ e2 > e1
        exponent == IF ~scaled THEN 0
                    ELSE IF esigned /\ s[e0 + 1] = "-"
                         THEN 0 - DigitsValue(SubSeq(s, e1, e2 - 1))
                         ELSE DigitsValue(SubSeq(s, e1, e2 - 1))
    IN  IF startsWithInfinity(s, i0)
        THEN [len |-> i0 + 7, num |-> [inf |-> TRUE, neg |-> neg]]
        ELSE IF valid
        THEN [len |-> IF scaled THEN e2 - 1 ELSE end,
              num |-> Expansion(neg, intPart \o fracPart,
                                Len(intPart) + exponent)]
        ELSE [len |-> 0, num |-> NaN]

\* Number(value): the whole trimmed text must be a literal; "" is 0.
Number(value) ==
    LET t == Trim(value)
        d == ScanDecimal(t)
    IN  IF t = <<>> THEN [neg |-> FALSE, int |-> <<>>, frac |-> <<>>]
        ELSE IF d.len = Len(t) THEN d.num ELSE NaN

\* parseFloat(value): the longest literal after leading white space.
parseFloat(value) == ScanDecimal(TrimStart(value)).num

isInfinite(n) == "inf" \in DOMAIN n

\* Number.prototype.toString: no sign on zero; decimal notation with "0"
\* for an empty integer part and the fraction only when there is one;
\* exponential notation from 1e21 on and below 1e-6.
numToString(n) ==
    IF isNaN(n) THEN <<"N", "a", "N">>
    ELSE IF isInfinite(n)
    THEN (IF n.neg THEN <<"-">> ELSE <<>>) \o InfinityText
    ELSE LET sign     == IF n.neg /\ (n.int # <<>> \/ n.frac # <<>>)
                         THEN <<"-">> ELSE <<>>
             leading  == Len(n.frac) - Len(StripLeadingZeros(n.frac))
             \* the significant digits and the exponent of the first
             digits   == StripTrailingZeros(
                            IF n.int # <<>> THEN n.int \o n.frac
                            ELSE StripLeadingZeros(n.frac))
             first    == IF n.int # <<>> THEN Len(n.int) - 1
                         ELSE 0 - (leading + 1)
             mantissa == <<Head(digits)>> \o
                            (IF Len(digits) > 1
                             THEN <<".">> \o Tail(digits) ELSE <<>>)
         IN  IF n.int = <<>> /\ n.frac = <<>> THEN <<"0">>
             ELSE IF first >= 21
             THEN sign \o mantissa \o <<"e", "+">> \o NatDigits(first)
             ELSE IF first < -6
             THEN sign \o mantissa \o <<"e", "-">> \o NatDigits(0 - first)
             ELSE sign
                  \o (IF n.int = <<>> THEN <<"0">> ELSE n.int)
                  \o (IF n.frac = <<>> THEN <<>> ELSE <<".">> \o n.frac)

(***************************************************************************)
(* The CSV decoder, salesforce.ts:196-285.  A decoded value is a tagged    *)
(* scalar: null, boolean, number or string.                                *)
(***************************************************************************)

Null == [t |-> "null"]
Bool(b) == [t |-> "boolean", v |-> b]
Num(n) == [t |-> "number", v |-> n]
Str(s) == [t |-> "string", v |-> s]

\* The scan of parseCSVLine from position i (1-based) on.
RECURSIVE parseCSVLineFrom(_, _, _, _, _)
parseCSVLineFrom(line, i, values, current, inQuotes) ==
    IF i > Len(line)
    THEN Append(values, current)                      \* add the last field
    ELSE IF line[i] = "\""
         THEN IF inQuotes /\ i + 1 <= Len(line) /\ line[i + 1] = "\""
              THEN parseCSVLineFrom(line, i + 2, values,
                                    Append(current, "\""), inQuotes)
              ELSE parseCSVLineFrom(line, i + 1, values, current, ~inQuotes)
         ELSE IF line[i] = "," /\ ~inQuotes
              THEN parseCSVLineFrom(line, i + 1, Append(values, current),
                                    <<>>, inQuotes)
              ELSE parseCSVLineFrom(line, i + 1, values,
                                    Append(current, line[i]), inQuotes)

\* Mutant of parseCSVLine: a field whose quote is still open at the end of
\* the line is dropped.
parseCSVLineDropsOpen(line) ==
    LET values == parseCSVLineFrom(line, 1, <<>>, <<>>, FALSE)
        quotes == Cardinality({i \in 1..Len(line) : line[i] = "\""})
    IN  IF quotes % 2 = 1 THEN SubSeq(values, 1, Len(values) - 1) ELSE values

\* Mutant of parseCSVLine: every comma separates, quotes are kept.
parseCSVLineNaive(line) == Split(line, ",")

parseCSVLine(line) == parseCSVLineFrom(line, 1, <<>>, <<>>, FALSE)

\* header.replace(/^"|"$/g, ''): one leading and one trailing quote go.
StripQuotes(header) ==
    LET h == IF header # <<>> /\ Head(header) = "\"" THEN Tail(header)
             ELSE header
    IN  IF h # <<>> /\ h[Len(h)] = "\"" THEN SubSeq(h, 1, Len(h) - 1) ELSE h

\* lines[0].split(',').map(...)
parseHeaders(line) ==
    LET raw == Split(line, ",")
    IN  [k \in 1..Len(raw) |-> StripQuotes(raw[k])]

\* Mutant of coerceValue: only the text with a trailing .0 is a number.
coerceValueOnlyDotZero(values, index) ==
    LET value == IF index <= Len(values) THEN values[index] ELSE <<>>
    IN  IF value = <<>> THEN Null
        ELSE IF value = <<"t", "r", "u", "e">> THEN Bool(TRUE)
        ELSE IF value = <<"f", "a", "l", "s", "e">> THEN Bool(FALSE)
        ELSE IF ~isNaN(Number(value)) /\ ~isNaN(parseFloat(value))
             THEN LET num == parseFloat(value)
                  IN  IF numToString(num) \o <<".", "0">> = value
                      THEN Num(num) ELSE Str(value)
             ELSE Str(value)

\* The coercion of one field, salesforce.ts:220-237.  `field` is
\* values[index]; beyond the last field it is undefined.
coerceValue(values, index) ==
    LET value == IF index <= Len(values) THEN values[index] ELSE <<>>
    IN  IF value = <<>> THEN Null                     \* values[index] || null
        ELSE IF value = <<"t", "r", "u", "e">> THEN Bool(TRUE)
        ELSE IF value = <<"f", "a", "l", "s", "e">> THEN Bool(FALSE)
        ELSE IF ~isNaN(Number(value)) /\ ~isNaN(parseFloat(value))
             THEN LET num == parseFloat(value)
                  IN  IF numToString(num) = value
                         \/ numToString(num) \o <<".", "0">> = value
                      THEN Num(num) ELSE Str(value)
             ELSE Str(value)

\* Mutant of makeRecord: the loop runs over the fields of the line, so a
\* header without a field gets no key.
makeRecordByValues(headers, values) ==
    LET n == IF Len(values) < Len(headers) THEN Len(values) ELSE Len(headers)
    IN  [h \in {headers[k] : k \in 1..n} |->
            LET last == CHOOSE k \in 1..n :
                            /\ headers[k] = h
                            /\ \A j \in (k + 1)..n : headers[j] # h
            IN  coerceValue(values, last)]

\* One record: headers.forEach((header, index) => record[header] = ...);
\* a header name that occurs twice keeps the value of its last column.
makeRecord(headers, values) ==
    [h \in {headers[k] : k \in 1..Len(headers)} |->
        LET last == CHOOSE k \in 1..Len(headers) :
                        /\ headers[k] = h
                        /\ \A j \in (k + 1)..Len(headers) : headers[j] # h
        IN  coerceValue(values, last)]

\* Mutant of IsBlank: blank data lines are not skipped.
IsBlankNever(line) == FALSE

\* A data line is skipped when !line.trim().
IsBlank(line) == Trim(line) = <<>>

\* The loop over lines[1..] of parseCSVToRecords.
RECURSIVE recordsFrom(_, _, _)
recordsFrom(lines, i, headers) ==
    IF i > Len(lines) THEN <<>>
    ELSE IF IsBlank(lines[i]) THEN recordsFrom(lines, i + 1, headers)
    ELSE <<makeRecord(headers, parseCSVLine(lines[i]))>>
             \o recordsFrom(lines, i + 1, headers)

parseCSVToRecords(csvText) ==
    LET lines == Split(Trim(csvText), "\n")
    IN  IF Len(lines) = 0 THEN <<>>
        ELSE recordsFrom(lines, 2, parseHeaders(lines[1]))

(***************************************************************************)
(* executeBulkQuery, salesforce.ts:113-191.                                *)
(***************************************************************************)

\* Every text of at most MaxCsvLen characters.
CsvTexts == UNION {[1..n -> CsvAlphabet] : n \in 0..MaxCsvLen}

\* new Error(`${prefix}${detail}`)
Err(prefix, detail) == [kind |-> "error", prefix |-> prefix, detail |-> detail]

\* The endpoints of the three kinds of call (salesforce.ts:118, 145, 168).
SubmitPath == [endpoint |-> "/jobs/query"]
\* Mutant of StatusPath: the path is built from a variable that was never
\* assigned the id of the response.
StatusPathStaleId(id) == [endpoint |-> "/jobs/query/<id>", id |-> "undefined"]

StatusPath(id) == [endpoint |-> "/jobs/query/<id>", id |-> id]
ResultsPath(id) == [endpoint |-> "/jobs/query/<id>/results", id |-> id]

\* salesforceApiCall: one fetch of the path, logged.
salesforceApiCall(method, path) ==
    requests' = Append(requests, [method |-> method, path |-> path])

\* Mutant of loopCondition: the budget test is off by one.
loopConditionOffByOne(status, n) == status = "InProgress" /\ n <= maxAttempts

\* while (jobStatus === 'InProgress' && attempts < maxAttempts)
loopCondition(status, n) == status = "InProgress" /\ n < maxAttempts

\* Mutant of jobFailed: the state is compared with the wrong literal.
jobFailedWrongLiteral(status) == status = "Failure"

\* if (jobStatus === 'Failed')
jobFailed(status) == status = "Failed"

\* statusData.stateMessage || 'Unknown error': an absent and an empty
\* message are both falsy.
failureMessage(statusData) ==
    IF "stateMessage" \in DOMAIN statusData /\ statusData.stateMessage # ""
    THEN statusData.stateMessage
    ELSE "Unknown error"

\* Mutant of notComplete: a spent budget counts as a timeout whatever the
\* last poll reported.
notCompleteOrBudgetSpent(status) ==
    status # "JobComplete" \/ attempts >= maxAttempts

\* Mutant of notComplete: only a job still in progress counts as timed out.
notCompleteOnlyInProgress(status) == status = "InProgress"

\* if (jobStatus !== 'JobComplete')
notComplete(status) == status # "JobComplete"

\* The value returned: { totalSize: records.length, done: true, records }
bulkResult(records) ==
    [totalSize |-> Len(records), done |-> TRUE, records |-> records]

\* No exported function of the cache has been called yet.
NoCall == [op |-> "none"]

\* new Map(): no key.
EmptyMap == [key \in {} |-> None]

\* The module as loaded: an empty cache, no call under way.
CacheInit ==
    /\ metadataCache = EmptyMap
    /\ now = 0
    /\ fetches = {}
    /\ lastCall = NoCall

\* The variables of a run that has not been called yet.
NotCalled(r) ==
    [run |-> r, pc |-> "start", jobId |-> "undefined",
     jobStatus |-> "undefined", attempts |-> 0, thrown |-> None,
     result |-> None, resultsText |-> <<>>, requests |-> <<>>,
     polled |-> <<>>, waits |-> <<>>, resultsResponse |-> None]

Init ==
    /\ pc = "start"
    /\ jobId = "undefined"
    /\ jobStatus = "undefined"
    /\ attempts = 0
    /\ thrown = None
    /\ result = None
    /\ resultsText = <<>>
    /\ requests = <<>>
    /\ polled = <<>>
    /\ waits = <<>>
    /\ resultsResponse = None
    /\ run = "r1"
    /\ parked = NotCalled("r2")
    /\ CacheInit

\* Step 1: the job-submission POST is issued.
Submit ==
    /\ pc = "start"
    /\ UNCHANGED <<resultsResponse, run, parked, cacheVars>>
    /\ salesforceApiCall("POST", SubmitPath)
    /\ pc' = "submitPending"
    /\ UNCHANGED <<jobId, jobStatus, attempts, thrown, result, resultsText,
                   polled, waits>>

\* The submission response arrives: throw on a non-success status, else
\* take the job id and initialise the loop variables.
SubmitResponse ==
    /\ pc = "submitPending"
    /\ UNCHANGED <<resultsResponse, run, parked, cacheVars>>
    /\ \/ \E text \in StatusTexts :
            /\ thrown' = Err("Failed to create bulk job: ", text)
            /\ pc' = "done"
            /\ UNCHANGED <<jobId, jobStatus, attempts>>
       \/ \E id \in JobIds :
            /\ jobId' = id
            /\ jobStatus' = "InProgress"
            /\ attempts' = 0
            /\ pc' = "loopTest"
            /\ UNCHANGED thrown
    /\ UNCHANGED <<result, resultsText, requests, polled, waits>>

\* Mutant of LoopTest: the loop polls first and waits afterwards.
LoopTestPollFirst ==
    /\ pc = "loopTest"
    /\ UNCHANGED <<resultsResponse, run, parked, cacheVars>>
    /\ pc' = IF jobStatus = "InProgress" /\ attempts < maxAttempts
             THEN "waited" ELSE "afterLoop"
    /\ UNCHANGED <<jobId, jobStatus, attempts, thrown, result, resultsText,
                   requests, polled, waits>>

\* The loop condition is evaluated; when it holds the 5-second timer is
\* armed (await new Promise(resolve => setTimeout(resolve, 5000))).
LoopTest ==
    /\ pc = "loopTest"
    /\ UNCHANGED <<resultsResponse, run, parked, cacheVars>>
    /\ pc' = IF loopCondition(jobStatus, attempts) THEN "waiting"
             ELSE "afterLoop"
    /\ UNCHANGED <<jobId, jobStatus, attempts, thrown, result, resultsText,
                   requests, polled, waits>>

\* The timer fires and resolves the promise the run awaits.
TimerFires ==
    /\ pc = "waiting"
    /\ UNCHANGED <<resultsResponse, run, parked, cacheVars>>
    /\ waits' = Append(waits, pollInterval)
    /\ pc' = "waited"
    /\ UNCHANGED <<jobId, jobStatus, attempts, thrown, result, resultsText,
                   requests, polled>>

\* The run resumes after the wait and issues the status GET.
StatusGet ==
    /\ pc = "waited"
    /\ UNCHANGED <<resultsResponse, run, parked, cacheVars>>
    /\ salesforceApiCall("GET", StatusPath(jobId))
    /\ pc' = "statusPending"
    /\ UNCHANGED <<jobId, jobStatus, attempts, thrown, result, resultsText,
                   polled, waits>>

\* Mutant of StatusResponse: a refused status GET is retried on the next
\* turn of the loop instead of ending the run.
StatusResponseRetries ==
    /\ pc = "statusPending"
    /\ UNCHANGED <<resultsResponse, run, parked, cacheVars>>
    /\ \/ \E text \in StatusTexts :
            /\ polled' = Append(polled, [ok |-> FALSE, statusText |-> text])
            /\ pc' = "loopTest"
            /\ UNCHANGED <<jobStatus, attempts, thrown>>
       \/ \E statusData \in StatusBodies :
            /\ polled' = Append(polled, [ok |-> TRUE, body |-> statusData])
            /\ jobStatus' = statusData.state
            /\ attempts' = attempts + 1
            /\ pc' = "loopTest"
            /\ UNCHANGED thrown
    /\ UNCHANGED <<jobId, result, resultsText, requests, waits>>

\* Mutant of StatusResponse: the attempt counter is shared by the runs, so
\* a poll of the running run also counts against the other one.
StatusResponseSharedCounter ==
    /\ pc = "statusPending"
    /\ UNCHANGED <<resultsResponse, run, cacheVars>>
    /\ \/ \E text \in StatusTexts :
            /\ polled' = Append(polled, [ok |-> FALSE, statusText |-> text])
            /\ thrown' = Err("Failed to check job status: ", text)
            /\ pc' = "done"
            /\ UNCHANGED <<jobStatus, attempts, parked>>
       \/ \E statusData \in StatusBodies :
            /\ polled' = Append(polled, [ok |-> TRUE, body |-> statusData])
            /\ jobStatus' = statusData.state
            /\ attempts' = attempts + 1
            /\ parked' = [parked EXCEPT !.attempts = @ + 1]
            /\ IF jobFailed(statusData.state)
               THEN /\ thrown' = Err("Bulk job failed: ",
                                     failureMessage(statusData))
                    /\ pc' = "done"
               ELSE /\ pc' = "loopTest"
                    /\ UNCHANGED thrown
    /\ UNCHANGED <<jobId, result, resultsText, requests, waits>>

\* The status response arrives (salesforce.ts:148-158).
StatusResponse ==
    /\ pc = "statusPending"
    /\ UNCHANGED <<resultsResponse, run, parked, cacheVars>>
    /\ \/ \E text \in StatusTexts :
            /\ polled' = Append(polled, [ok |-> FALSE, statusText |-> text])
            /\ thrown' = Err("Failed to check job status: ", text)
            /\ pc' = "done"
            /\ UNCHANGED <<jobStatus, attempts>>
       \/ \E statusData \in StatusBodies :
            /\ polled' = Append(polled, [ok |-> TRUE, body |-> statusData])
            /\ jobStatus' = statusData.state
            /\ attempts' = attempts + 1
            /\ IF jobFailed(statusData.state)
               THEN /\ thrown' = Err("Bulk job failed: ",
                                     failureMessage(statusData))
                    /\ pc' = "done"
               ELSE /\ pc' = "loopTest"
                    /\ UNCHANGED thrown
    /\ UNCHANGED <<jobId, result, resultsText, requests, waits>>

\* After the loop: the timeout error, or step 3, the results GET.
AfterLoop ==
    /\ pc = "afterLoop"
    /\ UNCHANGED <<resultsResponse, run, parked, cacheVars>>
    /\ IF notComplete(jobStatus)
       THEN /\ thrown' =
                Err("Bulk job did not complete within the expected time", "")
            /\ pc' = "done"
            /\ UNCHANGED requests
       ELSE /\ salesforceApiCall("GET", ResultsPath(jobId))
            /\ pc' = "resultsPending"
            /\ UNCHANGED thrown
    /\ UNCHANGED <<jobId, jobStatus, attempts, result, resultsText, polled,
                   waits>>

\* The results response arrives: throw on a non-success status, else read
\* the body, decode it and return (salesforce.ts:176-190).
ResultsResponse ==
    /\ pc = "resultsPending"
    /\ UNCHANGED <<run, parked, cacheVars>>
    /\ \/ \E text \in StatusTexts :
            /\ resultsResponse' = [ok |-> FALSE, statusText |-> text]
            /\ thrown' = Err("Failed to get job results: ", text)
            /\ pc' = "done"
            /\ UNCHANGED <<result, resultsText>>
       \/ \E csvText \in CsvTexts :
            /\ resultsResponse' = [ok |-> TRUE]
            /\ resultsText' = csvText
            /\ result' = bulkResult(parseCSVToRecords(csvText))
            /\ pc' = "done"
            /\ UNCHANGED thrown
    /\ UNCHANGED <<jobId, jobStatus, attempts, requests, polled, waits>>

Next ==
    \/ Submit
    \/ SubmitResponse
    \/ LoopTest
    \/ TimerFires
    \/ StatusGet
    \/ StatusResponse
    \/ AfterLoop
    \/ ResultsResponse

Spec == Init /\ [][Next]_vars

\* Every network call and every wait completes: a pending step is taken.
FairSpec == Spec /\ WF_vars(Next)

(***************************************************************************)
(* Two runs of executeBulkQuery at once.  All the state of a run is in the *)
(* locals of its call, and the single thread runs one of them at a time:   *)
(* the variables of the run that is not running are parked, and the event  *)
(* loop switches runs only where the running one awaits.                   *)
(***************************************************************************)

\* The variables of the running run.
Running ==
    [run |-> run, pc |-> pc, jobId |-> jobId, jobStatus |-> jobStatus,
     attempts |-> attempts, thrown |-> thrown, result |-> result,
     resultsText |-> resultsText, requests |-> requests, polled |-> polled,
     waits |-> waits, resultsResponse |-> resultsResponse]

\* Where a run can be while the other one runs: not called yet, at one of
\* its awaits (salesforce.ts:118, 141, 143, 166), or settled.
AwaitPoints ==
    {"start", "submitPending", "waiting", "statusPending", "resultsPending",
     "done"}

\* The running run awaits and the event loop resumes the other one.
SwitchRun ==
    /\ pc \in AwaitPoints
    /\ parked' = Running
    /\ run' = parked.run
    /\ pc' = parked.pc
    /\ jobId' = parked.jobId
    /\ jobStatus' = parked.jobStatus
    /\ attempts' = parked.attempts
    /\ thrown' = parked.thrown
    /\ result' = parked.result
    /\ resultsText' = parked.resultsText
    /\ requests' = parked.requests
    /\ polled' = parked.polled
    /\ waits' = parked.waits
    /\ resultsResponse' = parked.resultsResponse
    /\ UNCHANGED cacheVars

\* The results body the two jobs answer with.
TwoRunsCsv == {<<"a", "\n", "1">>}

\* The status bodies the two jobs answer with: the job goes on, succeeds
\* or fails.
TwoRunsBodies == [state : {"InProgress", "JobComplete", "Failed"}]

\* The run has been told that its job is still in progress.
ToldInProgress(log) ==
    \E i \in DOMAIN log : log[i].ok /\ log[i].body.state = "InProgress"

\* The remote end creates a job of its own for every submission; it
\* accepts every request of the two runs and answers with TwoRunsBodies
\* and TwoRunsCsv.  At most one of the two jobs is a long one: once a run
\* has been told InProgress, the job of the other run succeeds or fails by
\* its first poll.
OwnJob ==
    /\ jobId' \in JobIds => jobId' # parked.jobId
    /\ pc = "submitPending" => jobId' \in JobIds
    /\ polled' # polled =>
         LET answer == polled'[Len(polled')]
         IN  /\ answer.ok
             /\ answer.body \in TwoRunsBodies
             /\ answer.body.state = "InProgress" =>
                    ~ToldInProgress(parked.polled)
    /\ resultsResponse' \in {None, [ok |-> TRUE]}
    /\ resultsText' \in {<<>>} \cup TwoRunsCsv

TwoRunsNext ==
    \/ Next /\ OwnJob
    \/ SwitchRun

\* Two runs of executeBulkQuery with the same arguments, interleaved at
\* their awaits.
TwoRunsSpec == Init /\ [][TwoRunsNext]_vars

(***************************************************************************)
(* The metadata cache, src/unnamed/part_000:49-180.  The Map is a function *)
(* from the keys it holds to their entries; the exported functions are     *)
(* operators from the store (and the clock) to their return value and the  *)
(* store they leave, and one action each calls them.                       *)
(***************************************************************************)

\* part_000:59  const DEFAULT_TTL = 10 * 60 * 1000, in milliseconds
DEFAULT_TTL == 10 * 60 * 1000

\* connection.instanceUrl of the callers: two instances, the second the
\* first with a port.
InstanceUrls == {<<"h", ":", "a">>, <<"h", ":", "a", ":", "8">>}

\* objectType of the callers: API names of objects.
ObjectTypes == {<<"A">>, <<"B">>}

\* The object descriptions the describe endpoint answers with and callers
\* store.
Metadata == {[name |-> "m1"], [name |-> "m2"]}

\* The ttl argument of setCachedMetadata, when it is given.
Ttls == {0, 100}

\* The instants at which the clock is read.
Times == {0, 100, DEFAULT_TTL}

\* The (instanceUrl, objectType) pairs the callers work with.
CallArgs ==
    {<<i, o>> : i \in InstanceUrls, o \in ObjectTypes} \
        {<<<<"h", ":", "a", ":", "8">>, <<"B">>>>}

\* The callers that can have a getObjectMetadataWithCache under way.
Callers == {"c1"}

\* Map.prototype.set and Map.prototype.delete
MapSet(map, key, value) ==
    [k \in DOMAIN map \cup {key} |-> IF k = key THEN value ELSE map[k]]

MapDelete(map, key) == [k \in DOMAIN map \ {key} |-> map[k]]

\* String.prototype.startsWith
startsWith(str, prefix) ==
    Len(prefix) <= Len(str) /\ SubSeq(str, 1, Len(prefix)) = prefix

\* Mutant of getCacheKey: the key is the object name alone.
getCacheKeyObjectOnly(instanceUrl, objectType) == <<":">> \o objectType

\* `${instanceUrl}:${objectType}`
getCacheKey(instanceUrl, objectType) == instanceUrl \o <<":">> \o objectType

\* Mutant of isValidCacheEntry: an entry is still valid at the instant its
\* ttl has run out.
isValidCacheEntryInclusive(entry) == now - entry.timestamp <= entry.ttl

\* Date.now() - entry.timestamp < entry.ttl
isValidCacheEntry(entry) == now - entry.timestamp < entry.ttl

\* Mutant of getCachedMetadata: the expired entry is reported absent but
\* left in the Map.
getCachedMetadataKeepsExpired(store, instanceUrl, objectType) ==
    LET cacheKey == getCacheKey(instanceUrl, objectType)
        found    == cacheKey \in DOMAIN store
    IN  IF found /\ isValidCacheEntry(store[cacheKey])
        THEN [ret |-> store[cacheKey].data, store |-> store, evicted |-> FALSE]
        ELSE [ret |-> Null, store |-> store, evicted |-> found]

\* Mutant of getCachedMetadata: a hit renews the timestamp of the entry.
getCachedMetadataSliding(store, instanceUrl, objectType) ==
    LET cacheKey == getCacheKey(instanceUrl, objectType)
        found    == cacheKey \in DOMAIN store
    IN  IF found /\ isValidCacheEntry(store[cacheKey])
        THEN [ret |-> store[cacheKey].data,
              store |-> MapSet(store, cacheKey,
                               [store[cacheKey] EXCEPT !.timestamp = now]),
              evicted |-> FALSE]
        ELSE IF found
             THEN [ret |-> Null, store |-> MapDelete(store, cacheKey),
                   evicted |-> TRUE]
             ELSE [ret |-> Null, store |-> store, evicted |-> FALSE]

\* getCachedMetadata: the value returned, the store left, and whether the
\* delete of line 88 ran.
getCachedMetadata(store, instanceUrl, objectType) ==
    LET cacheKey == getCacheKey(instanceUrl, objectType)
        found    == cacheKey \in DOMAIN store          \* cached is truthy
    IN  IF found /\ isValidCacheEntry(store[cacheKey])
        THEN [ret |-> store[cacheKey].data, store |-> store, evicted |-> FALSE]
        ELSE IF found                                  \* remove expired entry
             THEN [ret |-> Null, store |-> MapDelete(store, cacheKey),
                   evicted |-> TRUE]
             ELSE [ret |-> Null, store |-> store, evicted |-> FALSE]

\* Mutant of ttlParameter: the argument is ignored.
ttlParameterIgnored(ttlArgs) == DEFAULT_TTL

\* The ttl parameter: DEFAULT_TTL when the argument is omitted.
ttlParameter(ttlArgs) == IF ttlArgs = <<>> THEN DEFAULT_TTL ELSE ttlArgs[1]

\* setCachedMetadata: the store left.
setCachedMetadata(store, instanceUrl, objectType, metadata, ttlArgs) ==
    MapSet(store, getCacheKey(instanceUrl, objectType),
           [data |-> metadata, timestamp |-> now,
            ttl |-> ttlParameter(ttlArgs)])

\* Mutant of clearMetadataCache: only the expired entries are removed.
clearMetadataCacheExpiredOnly(store) ==
    [k \in {key \in DOMAIN store : isValidCacheEntry(store[key])} |-> store[k]]

\* clearMetadataCache: the store left.
clearMetadataCache(store) == EmptyMap

\* Mutant of clearInstanceCache: only the expired entries of the instance
\* are removed.
clearInstanceCacheExpiredOnly(store, instanceUrl) ==
    [k \in {key \in DOMAIN store :
                \/ ~startsWith(key, instanceUrl \o <<":">>)
                \/ isValidCacheEntry(store[key])}
        |-> store[k]]

\* clearInstanceCache: the store left.  Deleting during Map.forEach is
\* safe: every key is visited once.
clearInstanceCache(store, instanceUrl) ==
    [k \in {key \in DOMAIN store : ~startsWith(key, instanceUrl \o <<":">>)}
        |-> store[k]]

\* Mutant of getCacheStats: every entry is counted as expired.
getCacheStatsExpiredIsRest(store) ==
    [total   |-> Cardinality(DOMAIN store),
     valid   |-> Cardinality({k \in DOMAIN store : isValidCacheEntry(store[k])}),
     expired |-> Cardinality(DOMAIN store)]

\* getCacheStats: the value returned.
getCacheStats(store) ==
    [total   |-> Cardinality(DOMAIN store),
     valid   |-> Cardinality({k \in DOMAIN store : isValidCacheEntry(store[k])}),
     expired |-> Cardinality({k \in DOMAIN store :
                                 ~isValidCacheEntry(store[k])})]

\* The path of the describe call (part_000:127).
DescribePath(objectType) ==
    [endpoint |-> "/sobjects/<objectType>/describe/", objectType |-> objectType]

\* A caller calls getCachedMetadata.
CallGetCachedMetadata(instanceUrl, objectType) ==
    LET r == getCachedMetadata(metadataCache, instanceUrl, objectType)
    IN  /\ metadataCache' = r.store
        /\ lastCall' = [op |-> "getCachedMetadata", instanceUrl |-> instanceUrl,
                        objectType |-> objectType, ret |-> r.ret,
                        evicted |-> r.evicted]
        /\ UNCHANGED <<now, fetches, bulkVars>>

\* A caller calls setCachedMetadata, with or without a ttl.
CallSetCachedMetadata(instanceUrl, objectType, metadata, ttlArgs) ==
    /\ metadataCache' = setCachedMetadata(metadataCache, instanceUrl,
                                          objectType, metadata, ttlArgs)
    /\ lastCall' = [op |-> "setCachedMetadata", instanceUrl |-> instanceUrl,
                    objectType |-> objectType, metadata |-> metadata,
                    ttlArgs |-> ttlArgs]
    /\ UNCHANGED <<now, fetches, bulkVars>>

\* Mutant of CallGetObjectMetadataWithCache: a call that misses while a
\* describe call for the same object is under way issues none of its own.
CallGetObjectMetadataWithCacheSingleFlight(caller, instanceUrl, objectType) ==
    LET r == getCachedMetadata(metadataCache, instanceUrl, objectType)
        shared == \E f \in fetches :
                      f.url = instanceUrl /\ f.path.objectType = objectType
    IN  /\ \A f \in fetches : f.caller # caller
        /\ metadataCache' = r.store
        /\ lastCall' = [op |-> "getObjectMetadataWithCache",
                        instanceUrl |-> instanceUrl,
                        objectType |-> objectType,
                        state |-> IF r.ret # Null THEN "returned"
                                  ELSE "awaiting",
                        ret |-> r.ret,
                        describes |-> IF r.ret # Null \/ shared THEN 0 ELSE 1]
        /\ fetches' = IF r.ret # Null \/ shared THEN fetches
                      ELSE fetches \cup
                             {[caller |-> caller, url |-> instanceUrl,
                               path |-> DescribePath(objectType)]}
        /\ UNCHANGED <<now, bulkVars>>

\* A caller calls getObjectMetadataWithCache: the lookup, and on a miss the
\* describe call, which the caller then awaits (part_000:119-128).
CallGetObjectMetadataWithCache(caller, instanceUrl, objectType) ==
    LET r == getCachedMetadata(metadataCache, instanceUrl, objectType)
    IN  /\ \A f \in fetches : f.caller # caller
        /\ metadataCache' = r.store
        /\ IF r.ret # Null                             \* if (cached)
           THEN /\ lastCall' = [op |-> "getObjectMetadataWithCache",
                                instanceUrl |-> instanceUrl,
                                objectType |-> objectType,
                                state |-> "returned", ret |-> r.ret,
                                describes |-> 0]
                /\ UNCHANGED fetches
           ELSE /\ lastCall' = [op |-> "getObjectMetadataWithCache",
                                instanceUrl |-> instanceUrl,
                                objectType |-> objectType,
                                state |-> "awaiting", ret |-> Null,
                                describes |-> 1]
                /\ fetches' = fetches \cup
                       {[caller |-> caller, url |-> instanceUrl,
                         path |-> DescribePath(objectType)]}
        /\ UNCHANGED <<now, bulkVars>>

\* The call that ran last, while f was waiting for its describe response,
\* cleared the cache or the instance of f: a note for the log of the
\* response.
justInvalidated(f) ==
    \/ lastCall.op = "clearMetadataCache"
    \/ lastCall.op = "clearInstanceCache" /\ lastCall.instanceUrl = f.url

\* Mutant of DescribeResponse: the fetched description is returned but not
\* stored.
DescribeResponseNoStore(f) ==
    /\ f \in fetches
    /\ fetches' = fetches \ {f}
    /\ \/ \E text \in StatusTexts :
            /\ lastCall' = [op |-> "getObjectMetadataWithCache",
                            instanceUrl |-> f.url,
                            objectType |-> f.path.objectType,
                            state |-> "threw", ret |-> Null, describes |-> 1,
                            invalidated |-> justInvalidated(f),
                            error |-> Err("Failed to get metadata for ",
                                          <<f.path.objectType, text>>)]
       \/ \E metadata \in Metadata :
            /\ lastCall' = [op |-> "getObjectMetadataWithCache",
                            instanceUrl |-> f.url,
                            objectType |-> f.path.objectType,
                            state |-> "returned", ret |-> metadata,
                            describes |-> 1,
                            invalidated |-> justInvalidated(f)]
    /\ UNCHANGED <<metadataCache, now, bulkVars>>

\* Mutant of DescribeResponse: the body of a refused describe call is stored
\* before the status is tested.
DescribeResponseStoresOnError(f) ==
    /\ f \in fetches
    /\ fetches' = fetches \ {f}
    /\ \/ \E text \in StatusTexts, body \in Metadata :
            /\ metadataCache' = setCachedMetadata(metadataCache, f.url,
                                    f.path.objectType, body, <<>>)
            /\ lastCall' = [op |-> "getObjectMetadataWithCache",
                            instanceUrl |-> f.url,
                            objectType |-> f.path.objectType,
                            state |-> "threw", ret |-> Null, describes |-> 1,
                            invalidated |-> justInvalidated(f),
                            error |-> Err("Failed to get metadata for ",
                                          <<f.path.objectType, text>>)]
       \/ \E metadata \in Metadata :
            /\ metadataCache' = setCachedMetadata(metadataCache, f.url,
                                    f.path.objectType, metadata, <<>>)
            /\ lastCall' = [op |-> "getObjectMetadataWithCache",
                            instanceUrl |-> f.url,
                            objectType |-> f.path.objectType,
                            state |-> "returned", ret |-> metadata,
                            describes |-> 1,
                            invalidated |-> justInvalidated(f)]
    /\ UNCHANGED <<now, bulkVars>>

\* Mutant of DescribeResponse: a call whose instance has just been cleared
\* returns what it fetched without storing it.
DescribeResponseSkipsInvalidated(f) ==
    /\ f \in fetches
    /\ fetches' = fetches \ {f}
    /\ \/ \E text \in StatusTexts :
            /\ lastCall' = [op |-> "getObjectMetadataWithCache",
                            instanceUrl |-> f.url,
                            objectType |-> f.path.objectType,
                            state |-> "threw", ret |-> Null, describes |-> 1,
                            invalidated |-> justInvalidated(f),
                            error |-> Err("Failed to get metadata for ",
                                          <<f.path.objectType, text>>)]
            /\ UNCHANGED metadataCache
       \/ \E metadata \in Metadata :
            /\ metadataCache' = IF justInvalidated(f) THEN metadataCache
                                ELSE setCachedMetadata(metadataCache, f.url,
                                        f.path.objectType, metadata, <<>>)
            /\ lastCall' = [op |-> "getObjectMetadataWithCache",
                            instanceUrl |-> f.url,
                            objectType |-> f.path.objectType,
                            state |-> "returned", ret |-> metadata,
                            describes |-> 1,
                            invalidated |-> justInvalidated(f)]
    /\ UNCHANGED <<now, bulkVars>>

\* The describe response of a call under way arrives: throw on a
\* non-success status, else store and return the body (part_000:130-139).
DescribeResponse(f) ==
    /\ f \in fetches
    /\ fetches' = fetches \ {f}
    /\ \/ \E text \in StatusTexts :
            /\ lastCall' = [op |-> "getObjectMetadataWithCache",
                            instanceUrl |-> f.url,
                            objectType |-> f.path.objectType,
                            state |-> "threw", ret |-> Null, describes |-> 1,
                            invalidated |-> justInvalidated(f),
                            error |-> Err("Failed to get metadata for ",
                                          <<f.path.objectType, text>>)]
            /\ UNCHANGED metadataCache
       \/ \E metadata \in Metadata :
            /\ metadataCache' = setCachedMetadata(metadataCache, f.url,
                                    f.path.objectType, metadata, <<>>)
            /\ lastCall' = [op |-> "getObjectMetadataWithCache",
                            instanceUrl |-> f.url,
                            objectType |-> f.path.objectType,
                            state |-> "returned", ret |-> metadata,
                            describes |-> 1,
                            invalidated |-> justInvalidated(f)]
    /\ UNCHANGED <<now, bulkVars>>

\* A caller calls clearMetadataCache.
CallClearMetadataCache ==
    /\ metadataCache' = clearMetadataCache(metadataCache)
    /\ lastCall' = [op |-> "clearMetadataCache",
                    removed |-> Cardinality(DOMAIN metadataCache)
                                - Cardinality(DOMAIN metadataCache')]
    /\ UNCHANGED <<now, fetches, bulkVars>>

\* A caller calls clearInstanceCache.
CallClearInstanceCache(instanceUrl) ==
    /\ metadataCache' = clearInstanceCache(metadataCache, instanceUrl)
    /\ lastCall' = [op |-> "clearInstanceCache", instanceUrl |-> instanceUrl,
                    removed |-> Cardinality(DOMAIN metadataCache)
                                - Cardinality(DOMAIN metadataCache')]
    /\ UNCHANGED <<now, fetches, bulkVars>>

\* A caller calls getCacheStats.
CallGetCacheStats ==
    /\ lastCall' = [op |-> "getCacheStats", ret |-> getCacheStats(metadataCache)]
    /\ UNCHANGED <<metadataCache, now, fetches, bulkVars>>

\* Mutant of Tick: a background sweep removes the entries that have expired
\* by the new instant.
TickSweeps ==
    /\ \E t \in Times :
         /\ t > now
         /\ now' = t
         /\ metadataCache' =
              [k \in {key \in DOMAIN metadataCache :
                         t - metadataCache[key].timestamp
                           < metadataCache[key].ttl}
                  |-> metadataCache[k]]
    /\ UNCHANGED <<fetches, lastCall, bulkVars>>

\* Time passes between two calls.
Tick ==
    /\ \E t \in Times : t > now /\ now' = t
    /\ UNCHANGED <<metadataCache, fetches, lastCall, bulkVars>>

CacheNext ==
    \/ \E a \in CallArgs : CallGetCachedMetadata(a[1], a[2])
    \/ \E a \in CallArgs, m \in Metadata,
          t \in {<<>>} \cup {<<ttl>> : ttl \in Ttls} :
            CallSetCachedMetadata(a[1], a[2], m, t)
    \/ \E c \in Callers, a \in CallArgs :
            CallGetObjectMetadataWithCache(c, a[1], a[2])
    \/ \E f \in fetches : DescribeResponse(f)
    \/ CallClearMetadataCache
    \/ \E i \in InstanceUrls : CallClearInstanceCache(i)
    \/ CallGetCacheStats
    \/ Tick

\* The cache under any sequence of calls by its callers.
CacheSpec == Init /\ [][CacheNext]_vars

\* Two requests served at once: each can have a getObjectMetadataWithCache
\* under way while the other, or anyone else, calls the cache.
RaceCallers == {"c1", "c2"}

\* The (instanceUrl, objectType) pairs the concurrent callers work with.
RaceArgs == {<<<<"h", ":", "a">>, <<"A">>>>,
             <<<<"h", ":", "a", ":", "8">>, <<"A">>>>}

RaceNext ==
    \/ \E a \in RaceArgs : CallGetCachedMetadata(a[1], a[2])
    \/ \E a \in RaceArgs, m \in Metadata :
            CallSetCachedMetadata(a[1], a[2], m, <<>>)
    \/ \E c \in RaceCallers, a \in RaceArgs :
            CallGetObjectMetadataWithCache(c, a[1], a[2])
    \/ \E f \in fetches : DescribeResponse(f)
    \/ CallClearMetadataCache
    \/ \E i \in InstanceUrls : CallClearInstanceCache(i)
    \/ CallGetCacheStats
    \/ Tick

\* The cache under any interleaving of the calls of concurrent callers.
RaceSpec == Init /\ [][RaceNext]_vars

\* Pairs whose instance URL or object name holds the separator of the
\* key: (a, b:c) and (a:b, c), and (a, c) beside them.
KeyArgs == {<<<<"a">>, <<"b", ":", "c">>>>,
            <<<<"a", ":", "b">>, <<"c">>>>,
            <<<<"a">>, <<"c">>>>}

KeyNext ==
    \/ \E a \in KeyArgs : CallGetCachedMetadata(a[1], a[2])
    \/ \E a \in KeyArgs, m \in Metadata,
          t \in {<<>>} \cup {<<ttl>> : ttl \in Ttls} :
            CallSetCachedMetadata(a[1], a[2], m, t)
    \/ CallGetCacheStats
    \/ Tick

\* Lookups and puts of pairs that hold the separator.
KeySpec == Init /\ [][KeyNext]_vars

(***************************************************************************)
(* The connection, the transport and the synchronous query,                *)
(* salesforce.ts:8-63.  Each call is recorded in lastCall with its         *)
(* arguments, the fetches it issued and its outcome.                       *)
(***************************************************************************)

\* A cookie, a header or a property that is not there.
Undefined == "undefined"

\* The names of the cookies a request can carry: the three the code reads
\* and one it does not.
CookieNames ==
    {"sf_access_token", "sf_instance_url", "sf_refresh_token", "sf_user_info"}

\* The value of a cookie that is there: empty or not.
CookieValues == {"", "x", "y"}

\* req.headers.cookie: no header, or a header with some cookies.  The
\* header text is modelled by the cookies parse() finds in it.
CookieHeaders ==
    {[present |-> FALSE]} \cup
    {[present |-> TRUE, cookies |-> jar] :
        jar \in UNION {[names -> CookieValues] : names \in SUBSET CookieNames}}

\* parse(req.headers.cookie || ''): no header parses as no cookie.
parse(header) ==
    IF header.present THEN header.cookies ELSE [n \in {} |-> ""]

\* cookies.name: undefined when the cookie is not there.
Property(object, name) ==
    IF name \in DOMAIN object THEN object[name] ELSE Undefined

\* !value for a string or undefined.
Falsy(value) == value = Undefined \/ value = ""

\* Mutant of getSalesforceConnection: one of the two cookies is enough.
getSalesforceConnectionEitherCookie(req) ==
    LET cookies      == parse(req.headers.cookie)
        accessToken  == Property(cookies, "sf_access_token")
        instanceUrl  == Property(cookies, "sf_instance_url")
        refreshToken == Property(cookies, "sf_refresh_token")
    IN  IF Falsy(accessToken) /\ Falsy(instanceUrl) THEN Null
        ELSE [accessToken |-> accessToken, instanceUrl |-> instanceUrl,
              refreshToken |-> refreshToken]

\* getSalesforceConnection, salesforce.ts:8-24.
getSalesforceConnection(req) ==
    LET cookies      == parse(req.headers.cookie)
        accessToken  == Property(cookies, "sf_access_token")
        instanceUrl  == Property(cookies, "sf_instance_url")
        refreshToken == Property(cookies, "sf_refresh_token")
    IN  IF Falsy(accessToken) \/ Falsy(instanceUrl) THEN Null
        ELSE [accessToken |-> accessToken, instanceUrl |-> instanceUrl,
              refreshToken |-> refreshToken]

\* A caller calls getSalesforceConnection.  The functions of this section
\* keep nothing from one call to the next, so a behaviour is one call.
CallGetSalesforceConnection(req) ==
    /\ lastCall = NoCall
    /\ lastCall' = [op |-> "getSalesforceConnection", req |-> req,
                    ret |-> getSalesforceConnection(req)]
    /\ UNCHANGED <<metadataCache, now, fetches, bulkVars>>

\* The connections the transport is called with.
Connections ==
    [accessToken : {"x", "y"}, instanceUrl : InstanceUrls,
     refreshToken : {Undefined}]

\* The endpoints the transport is called with.
Endpoints == {<<"/", "q">>, <<"/", "j">>}

\* The names and values of the headers a caller passes in options.headers.
HeaderNames == {"Authorization", "Content-Type", "Accept"}
HeaderValues == {<<"text/csv">>}

\* The options argument: {} by default, else a method, headers or both.
RequestInits ==
    UNION {[keys -> {"POST"}] : keys \in SUBSET {"method"}} \cup
    {[headers |-> h] :
        h \in UNION {[names -> HeaderValues] : names \in SUBSET HeaderNames}}
    \cup
    {[method |-> "POST", headers |-> h] :
        h \in UNION {[names -> HeaderValues] : names \in SUBSET HeaderNames}}

\* { ...a, ...b }: the properties of both, those of b winning.
Spread(a, b) ==
    [k \in DOMAIN a \cup DOMAIN b |-> IF k \in DOMAIN b THEN b[k] ELSE a[k]]

\* ...options.headers: nothing when the property is not there.
SpreadOf(object, name) ==
    IF name \in DOMAIN object THEN object[name] ELSE [k \in {} |-> <<>>]

\* The two headers of the transport (salesforce.ts:39-40); a header value
\* is the sequence of the parts it is put together from.
OwnHeaders(connection) ==
    ("Authorization" :> <<"Bearer ", connection.accessToken>>)
        @@ ("Content-Type" :> <<"application/json">>)

\* Mutant of fetchArguments: the two headers of the transport win over the
\* headers of the caller.
fetchArgumentsOwnHeadersWin(connection, endpoint, options) ==
    [url  |-> connection.instanceUrl \o endpoint,
     init |-> Spread(options,
                [headers |-> Spread(SpreadOf(options, "headers"),
                    OwnHeaders(connection))])]

\* The arguments of the fetch of salesforceApiCall, salesforce.ts:34-43.
fetchArguments(connection, endpoint, options) ==
    [url  |-> connection.instanceUrl \o endpoint,
     init |-> Spread(options,
                [headers |-> Spread(OwnHeaders(connection),
                                    SpreadOf(options, "headers"))])]

\* The responses of the remote end: a status, its text and a body.
Responses ==
    {[ok |-> TRUE, status |-> 200, statusText |-> "OK"],
     [ok |-> FALSE, status |-> 401, statusText |-> "Unauthorized"],
     [ok |-> FALSE, status |-> 500, statusText |-> "Server Error"]}

\* A caller calls salesforceApiCall: the fetch is issued and awaited.
CallSalesforceApiCall(connection, endpoint, options) ==
    /\ lastCall = NoCall
    /\ lastCall' = [op |-> "salesforceApiCall", state |-> "awaiting",
                    connection |-> connection, endpoint |-> endpoint,
                    options |-> options,
                    fetched |-> <<fetchArguments(connection, endpoint,
                                                  options)>>]
    /\ UNCHANGED <<metadataCache, now, fetches, bulkVars>>

\* The fetch of salesforceApiCall resolves: the response is returned as it
\* is (salesforce.ts:45).
ApiCallResponse ==
    /\ lastCall.op = "salesforceApiCall"
    /\ lastCall.state = "awaiting"
    /\ \E response \in Responses :
         lastCall' = [lastCall EXCEPT !.state = "returned"]
                        @@ [ret |-> response]
    /\ UNCHANGED <<metadataCache, now, fetches, bulkVars>>

\* Longest query text (in characters) executeQuery is called with.
MaxQueryLen == 3

\* Characters of a query text: a letter, white space, the characters that
\* have a meaning in a URL, a mark that encodeURIComponent leaves alone and
\* a letter outside ASCII.
QueryAlphabet == {"a", " ", "%", "&", "+", "'", "é"}

Queries == UNION {[1..n -> QueryAlphabet] : n \in 0..MaxQueryLen}

\* The characters encodeURIComponent leaves alone: letters, digits and
\* - _ . ! ~ * ' ( ).
Unescaped(c) == c \in {"a", "-", "_", ".", "!", "~", "*", "'", "(", ")"}

\* The escape of every other character: % and the two hexadecimal digits
\* of each byte of its UTF-8 encoding.
Escapes ==
    (" " :> <<"%", "2", "0">>) @@ ("%" :> <<"%", "2", "5">>)
        @@ ("&" :> <<"%", "2", "6">>) @@ ("+" :> <<"%", "2", "B">>)
        @@ ("#" :> <<"%", "2", "3">>) @@ ("=" :> <<"%", "3", "D">>)
        @@ ("é" :> <<"%", "C", "3", "%", "A", "9">>)

\* Mutant of encodeURIComponent: the text is passed on as it is.
encodeURIComponentNot(text) == text

\* encodeURIComponent
RECURSIVE encodeURIComponent(_)
encodeURIComponent(text) ==
    IF text = <<>> THEN <<>>
    ELSE (IF Unescaped(Head(text)) THEN <<Head(text)>>
          ELSE Escapes[Head(text)]) \o encodeURIComponent(Tail(text))

\* decodeURIComponent throws on a text it cannot decode.
URIError == <<"URIError">>

\* decodeURIComponent: every escape is replaced by its character; a % that
\* begins no escape is a URIError.
RECURSIVE decodeURIComponent(_)
decodeURIComponent(text) ==
    IF text = <<>> THEN <<>>
    ELSE IF Head(text) # "%"
    THEN LET rest == decodeURIComponent(Tail(text))
         IN  IF rest = URIError THEN rest ELSE <<Head(text)>> \o rest
    ELSE LET hits == {c \in DOMAIN Escapes : startsWith(text, Escapes[c])}
         IN  IF hits = {} THEN URIError
             ELSE LET c    == CHOOSE x \in hits : TRUE
                      rest == decodeURIComponent(
                                  SubSeq(text, Len(Escapes[c]) + 1, Len(text)))
                  IN  IF rest = URIError THEN rest ELSE <<c>> \o rest

\* `/services/data/v58.0/query/?q=`
QueryPrefix ==
    <<"/", "s", "e", "r", "v", "i", "c", "e", "s", "/", "d",
        "a", "t", "a", "/", "v", "5", "8", ".", "0", "/", "q", "u",
        "e", "r", "y", "/", "?", "q", "=">>

\* The q parameter of a path: the text after ?q= up to the next & or #.
RECURSIVE UpToDelimiter(_)
UpToDelimiter(text) ==
    IF text = <<>> \/ Head(text) \in {"&", "#"} THEN <<>>
    ELSE <<Head(text)>> \o UpToDelimiter(Tail(text))

QParameter(path) ==
    UpToDelimiter(SubSeq(path, Len(QueryPrefix) + 1, Len(path)))

\* The body of a successful query response: a last page, or a first page
\* with more to come.
QueryBodies ==
    {[totalSize |-> 1, done |-> TRUE, records |-> <<"r1">>],
     [totalSize |-> 2, done |-> FALSE, records |-> <<"r1">>,
      nextRecordsUrl |-> <<"/", "n">>]}

\* The responses to the query GET.
QueryResponses ==
    {[ok |-> FALSE, statusText |-> text] : text \in StatusTexts} \cup
    {[ok |-> TRUE, body |-> body] : body \in QueryBodies}

\* No options argument: options = {}.
NoOptions == [k \in {} |-> <<>>]

\* A caller calls executeQuery: the query is encoded and the GET issued
\* through salesforceApiCall (salesforce.ts:52-56).
CallExecuteQuery(connection, query) ==
    /\ lastCall = NoCall
    /\ lastCall' = [op |-> "executeQuery", state |-> "awaiting",
                    connection |-> connection, query |-> query,
                    fetched |-> <<fetchArguments(connection,
                                     QueryPrefix \o encodeURIComponent(query),
                                     NoOptions)>>]
    /\ UNCHANGED <<metadataCache, now, fetches, bulkVars>>

\* Mutant of ExecuteQueryResponse: a first page with more to come is
\* followed by a request for the next page.
ExecuteQueryResponseFollowsNext ==
    /\ lastCall.op = "executeQuery"
    /\ lastCall.state = "awaiting"
    /\ \E response \in QueryResponses :
         lastCall' =
            IF ~response.ok
            THEN [lastCall EXCEPT !.state = "threw"]
                    @@ [response |-> response,
                        error |-> Err("Query failed: ", response.statusText)]
            ELSE [lastCall EXCEPT
                    !.state = "returned",
                    !.fetched =
                        IF response.body.done THEN @
                        ELSE Append(@, fetchArguments(lastCall.connection,
                                           response.body.nextRecordsUrl,
                                           NoOptions))]
                    @@ [response |-> response, ret |-> response.body]
    /\ UNCHANGED <<metadataCache, now, fetches, bulkVars>>

\* The response to the query GET arrives: throw on a non-success status,
\* else return the decoded body (salesforce.ts:58-62).
ExecuteQueryResponse ==
    /\ lastCall.op = "executeQuery"
    /\ lastCall.state = "awaiting"
    /\ \E response \in QueryResponses :
         lastCall' =
            IF ~response.ok
            THEN [lastCall EXCEPT !.state = "threw"]
                    @@ [response |-> response,
                        error |-> Err("Query failed: ", response.statusText)]
            ELSE [lastCall EXCEPT !.state = "returned"]
                    @@ [response |-> response, ret |-> response.body]
    /\ UNCHANGED <<metadataCache, now, fetches, bulkVars>>

TransportNext ==
    \/ /\ lastCall = NoCall
       /\ \E h \in CookieHeaders :
            CallGetSalesforceConnection([headers |-> [cookie |-> h]])
    \/ /\ lastCall = NoCall
       /\ \E c \in Connections, e \in Endpoints, o \in RequestInits :
            CallSalesforceApiCall(c, e, o)
    \/ ApiCallResponse
    \/ /\ lastCall = NoCall
       /\ \E c \in Connections, q \in Queries : CallExecuteQuery(c, q)
    \/ ExecuteQueryResponse

\* The connection, the transport and the synchronous query under any
\* sequence of calls.
TransportSpec == Init /\ [][TransportNext]_vars

(***************************************************************************)
(* The query API handler, pages/api/salesforce/query.ts:4-30.  A request   *)
(* has a method, a cookie header and a body as the body parser left it:    *)
(* an object with or without a query property, or null for the JSON text   *)
(* null.  The log of a call holds the answers sent with res.status().json()*)
(* and the calls of executeQuery made.                                     *)
(***************************************************************************)

Methods == {"POST", "GET", "PUT"}

\* A property that is not there, as a value.
UndefinedValue == [t |-> "undefined"]

\* req.body.query: not there, null, the empty string, a number, a query.
QueryValues ==
    {UndefinedValue, Null, Str(<<>>), Num(Number(<<"7">>)),
     Str(<<"a">>), Str(<<"a", " ", "%">>)}

\* req.body: an object with its query property, or null.
Bodies == {Null} \cup {[t |-> "object", query |-> q] : q \in QueryValues}

Requests ==
    [method : Methods, headers : [cookie : CookieHeaders], body : Bodies]

\* !query || typeof query !== 'string'
queryRejected(query) ==
    \/ query \in {UndefinedValue, Null, Str(<<>>)}
    \/ query.t # "string"

\* What executeQuery(connection, query) ends with: the decoded body, or
\* the error of a refused or failed request.
ExecuteQueryOutcomes ==
    {[returned |-> TRUE, ret |-> body] : body \in QueryBodies} \cup
    {[returned |-> FALSE, error |-> Err("Query failed: ", text)] :
        text \in StatusTexts} \cup
    {[returned |-> FALSE, error |-> Err("fetch failed", "")]}

\* The log of a call that answered at once.
Answered(req, status, message) ==
    [op |-> "handler", req |-> req, state |-> "sent",
     sent |-> <<[status |-> status, json |-> [message |-> message]]>>,
     executeQueryCalls |-> <<>>]

\* handler(req, res) up to its return, its throw or its await.
CallHandler(req) ==
    LET connection == getSalesforceConnection(req)
    IN  /\ lastCall = NoCall
        /\ lastCall' =
              IF req.method # "POST"
              THEN Answered(req, 405, "Method not allowed")
              ELSE IF connection = Null
              THEN Answered(req, 401, "Not authenticated")
              ELSE IF req.body = Null
              \* const { query } = req.body throws a TypeError
              THEN [op |-> "handler", req |-> req, state |-> "threw",
                    sent |-> <<>>, executeQueryCalls |-> <<>>]
              ELSE IF queryRejected(req.body.query)
              THEN Answered(req, 400, "Query is required")
              ELSE [op |-> "handler", req |-> req, state |-> "awaiting",
                    sent |-> <<>>,
                    executeQueryCalls |->
                        <<[connection |-> connection,
                           query |-> req.body.query.v]>>]
        /\ UNCHANGED <<metadataCache, now, fetches, bulkVars>>

\* executeQuery ends: 200 with its result, or 500 with the message of its
\* error (query.ts:22-29).
HandlerResponse ==
    /\ lastCall.op = "handler"
    /\ lastCall.state = "awaiting"
    /\ \E outcome \in ExecuteQueryOutcomes :
         lastCall' =
            [lastCall EXCEPT
                !.state = "sent",
                !.sent =
                    IF outcome.returned
                    THEN <<[status |-> 200, json |-> outcome.ret]>>
                    ELSE <<[status |-> 500,
                            json |-> [message |-> "Query execution failed",
                                      error |-> outcome.error]]>>]
    /\ UNCHANGED <<metadataCache, now, fetches, bulkVars>>

HandlerNext ==
    \/ /\ lastCall = NoCall
       /\ \E req \in Requests : CallHandler(req)
    \/ HandlerResponse

\* The handler called with any request.
HandlerSpec == Init /\ [][HandlerNext]_vars

(***************************************************************************)
(* The CSV decoder on its own, salesforce.ts:196-285: parseCSVLine and     *)
(* parseCSVToRecords are pure, so each is called once with any text of a   *)
(* family and the call is logged with what it returned.                    *)
(***************************************************************************)

MaxLineLen == 5
LineAlphabet == {"a", ",", "\"", " "}

\* Every line of at most MaxLineLen characters.
CsvLines == UNION {[1..n -> LineAlphabet] : n \in 0..MaxLineLen}

MaxTextLen == 5
TextAlphabet == {"a", "b", "1", ",", "\"", "\n"}

\* Every text of at most MaxTextLen characters: header lines and data
\* lines with quotes, commas, blank lines and missing or extra fields.
ShortTexts == UNION {[1..n -> TextAlphabet] : n \in 0..MaxTextLen}

MaxFieldLen == 5
FieldAlphabet == {"0", "1", ".", "-", "+", "e", " "}

\* The field values that upstream results are known to carry and that the
\* coercion treats each in its own way.
NamedFields ==
    { <<"0", "0", "7">>, <<"1", ".", "5", "0">>, <<" ", "1", "2">>,
      <<"1", "e", "3">>, <<"t", "r", "u", "e">>, <<"f", "a", "l", "s", "e">>,
      <<"T", "r", "u", "e">>, <<"N", "a", "N">>, <<"0", "x", "1", "0">>,
      InfinityText, <<"-">> \o InfinityText, <<"+">> \o InfinityText,
      <<"1", "e", "+", "2", "1">>, <<"1", "e", "2", "1">>,
      <<"1", "e", "-", "7">>, <<"0", ".", "0", "0", "0", "0", "0", "1">>,
      <<"1", "2", "3">>, <<"-", "4", ".", "5">>, <<"1", "2", ".", "0">> }

\* Every field of at most MaxFieldLen characters of numeric texts, and the
\* named ones.
FieldTexts ==
    NamedFields \cup UNION {[1..n -> FieldAlphabet] : n \in 0..MaxFieldLen}

\* The header line of the one-column texts.
OneColumn == <<"v">>

\* A one-column text: the header line and one data line holding a field.
FieldText(field) == OneColumn \o <<"\n">> \o field

\* A result whose first column name is quoted and holds a comma, and one
\* with a line of white space and an empty line between its data lines.
NamedTexts ==
    { <<"\"", "a", ",", "b", "\"", ",", "c", "\n",
        "\"", "1", ",", "1", "\"", ",", "1">>,
      <<"a", "\n", "1", "\n", " ", "\n", "\n", "b", "\n">> }

\* The texts the decoder is called with.
DecoderTexts ==
    ShortTexts \cup NamedTexts \cup {FieldText(f) : f \in FieldTexts}

(***************************************************************************)
(* exportToCSV, SOQLQueryTool.tsx:80-102: the text that is downloaded for  *)
(* the records of a result.  A record is a function from its keys to flat  *)
(* values; Object.keys lists the keys in the order they were added, which  *)
(* is KeyOrder for every record here.                                      *)
(***************************************************************************)

MaxValueLen == 2
ValueAlphabet == {"a", ",", "\""}

\* The flat values of a record: null, a boolean, numbers, every string of
\* at most MaxValueLen characters, and strings that read as other values.
FlatValues ==
    {Null, Bool(TRUE), Num(Number(<<"1", "2">>)),
     Str(<<"1", "2", "3">>), Str(<<"1", "2", ".", "0">>),
     Str(<<"t", "r", "u", "e">>), Str(InfinityText), Str(<<"a", " ">>)}
    \cup {Str(t) : t \in UNION {[1..n -> ValueAlphabet] : n \in 0..MaxValueLen}}

KeyOrder == << <<"a">>, <<"b">> >>

\* Results of one record with both keys, and of up to two records with
\* the first key.
ExportResults ==
    {[records |-> <<>>]}
    \cup {[records |-> <<r>>] : r \in [{KeyOrder[1], KeyOrder[2]} -> FlatValues]}
    \cup {[records |-> <<r>>] : r \in [{KeyOrder[1]} -> FlatValues]}
    \cup {[records |-> <<r1, r2>>] :
            r1 \in [{KeyOrder[1]} -> FlatValues],
            r2 \in [{KeyOrder[1]} -> FlatValues]}

\* Object.keys(record)
ObjectKeys(record) == SelectSeq(KeyOrder, LAMBDA k : k \in DOMAIN record)

\* parts.join(sep)
RECURSIVE join(_, _)
join(parts, sep) ==
    IF parts = <<>> THEN <<>>
    ELSE IF Len(parts) = 1 THEN parts[1]
    ELSE parts[1] \o <<sep>> \o join(Tail(parts), sep)

\* String(value) of a flat value that is not null.
String(value) ==
    CASE value.t = "string"  -> value.v
      [] value.t = "number"  -> numToString(value.v)
      [] value.t = "boolean" ->
            IF value.v THEN <<"t", "r", "u", "e">>
            ELSE <<"f", "a", "l", "s", "e">>

\* text.replace(/"/g, '""')
RECURSIVE doubleQuotes(_)
doubleQuotes(text) ==
    IF text = <<>> THEN <<>>
    ELSE (IF Head(text) = "\"" THEN <<"\"", "\"">> ELSE <<Head(text)>>)
         \o doubleQuotes(Tail(text))

\* One cell: nothing for null and undefined, else the quoted text.  (The
\* JSON branch is for values that are objects, which flat records lack.)
exportCell(record, header) ==
    IF header \notin DOMAIN record \/ record[header] = Null THEN <<>>
    ELSE <<"\"">> \o doubleQuotes(String(record[header])) \o <<"\"">>

\* csvContent of a result with records.
csvContent(queryResult) ==
    LET headers == ObjectKeys(queryResult.records[1])
        line(record) ==
            join([k \in 1..Len(headers) |-> exportCell(record, headers[k])],
                 ",")
    IN  join(<<join(headers, ",")>>
                \o [k \in 1..Len(queryResult.records) |-> line(queryResult.records[k])],
             "\n")

CallExportToCSV(queryResult) ==
    /\ lastCall = NoCall
    /\ lastCall' = IF Len(queryResult.records) = 0
                   THEN [op |-> "exportToCSV", result |-> queryResult,
                         exported |-> FALSE, csvContent |-> <<>>]
                   ELSE [op |-> "exportToCSV", result |-> queryResult,
                         exported |-> TRUE, csvContent |-> csvContent(queryResult)]
    /\ UNCHANGED <<metadataCache, now, fetches, bulkVars>>

CallParseCSVLine(line) ==
    /\ lastCall = NoCall
    /\ lastCall' = [op |-> "parseCSVLine", line |-> line,
                    ret |-> parseCSVLine(line)]
    /\ UNCHANGED <<metadataCache, now, fetches, bulkVars>>

CallParseCSVToRecords(csvText) ==
    /\ lastCall = NoCall
    /\ lastCall' = [op |-> "parseCSVToRecords", csvText |-> csvText,
                    ret |-> parseCSVToRecords(csvText)]
    /\ UNCHANGED <<metadataCache, now, fetches, bulkVars>>

\* One call in a behaviour: nothing is looked up before a call is due.
CsvNext ==
    \/ /\ lastCall = NoCall
       /\ \E line \in CsvLines : CallParseCSVLine(line)
    \/ /\ lastCall = NoCall
       /\ \E csvText \in DecoderTexts : CallParseCSVToRecords(csvText)
    \/ /\ lastCall = NoCall
       /\ \E queryResult \in ExportResults : CallExportToCSV(queryResult)

\* The decoder called with any line and any text, and the export called
\* with any result.
CsvSpec == Init /\ [][CsvNext]_vars

(***************************************************************************)
(* What the logs of a run say.                                             *)
(***************************************************************************)

StatusGets ==
    Cardinality({i \in DOMAIN requests :
                    requests[i].path.endpoint = "/jobs/query/<id>"})

ResultsGets ==
    Cardinality({i \in DOMAIN requests :
                    requests[i].path.endpoint = "/jobs/query/<id>/results"})

SubmitPosts ==
    Cardinality({i \in DOMAIN requests :
                    requests[i].path.endpoint = "/jobs/query"})

\* The i-th status poll was answered with a success status and state st.
Reports(i, st) ==
    i \in DOMAIN polled /\ polled[i].ok /\ polled[i].body.state = st

\* The first k-1 polls reported InProgress and the k-th JobComplete.
CompleteAtPoll(k) ==
    /\ Reports(k, "JobComplete")
    /\ \A i \in 1..(k - 1) : Reports(i, "InProgress")

TimeoutError == Err("Bulk job did not complete within the expected time", "")

Returned == pc = "done" /\ result # None /\ thrown = None

SubmissionRefused ==
    thrown # None /\ thrown.prefix = "Failed to create bulk job: "

ResultsRefused ==
    thrown # None /\ thrown.prefix = "Failed to get job results: "

(***************************************************************************)
(* The claims.                                                             *)
(***************************************************************************)

\* C1: for every k in 1..60, when the first k-1 status polls report
\* InProgress and the k-th reports JobComplete, exactly k status GETs are
\* issued, and the run ends with exactly one results GET, issued last, and
\* returns a result once that GET is answered with a success status.
C1_CompleteAtPollK ==
    \A k \in 1..maxAttempts :
        CompleteAtPoll(k) =>
            /\ StatusGets = k
            /\ Len(polled) = k
            /\ pc = "done" =>
                 /\ ResultsGets = 1
                 /\ requests[Len(requests)].path = ResultsPath(jobId)
                 /\ Returned \/ ResultsRefused

\* C1 witness: the 60th poll is the one that reports JobComplete and the
\* run has returned.
C1_Witness ==
    /\ CompleteAtPoll(maxAttempts)
    /\ Returned
    /\ StatusGets = maxAttempts

AllInProgress ==
    \A i \in DOMAIN polled : Reports(i, "InProgress")

\* C2: when every status poll reports InProgress, the run ends with the
\* timeout error after exactly 60 status GETs; there is never a 61st status
\* GET, and no results GET.
C2_AllInProgressTimesOut ==
    /\ StatusGets <= maxAttempts
    /\ AllInProgress =>
         /\ ResultsGets = 0
         /\ (pc = "done" /\ ~SubmissionRefused) =>
              /\ thrown = TimeoutError
              /\ result = None
              /\ StatusGets = maxAttempts
              /\ Len(polled) = maxAttempts

\* C2 witness: sixty polls, all InProgress, and the timeout error.
C2_Witness ==
    /\ pc = "done"
    /\ Len(polled) = maxAttempts
    /\ AllInProgress
    /\ thrown = TimeoutError

\* What follows a poll n that reports Failed, the message apart.
FailedStopsAt(n) ==
    /\ pc = "done"
    /\ Len(polled) = n
    /\ StatusGets = n
    /\ Len(waits) = n
    /\ ResultsGets = 0
    /\ result = None
    /\ thrown # None
    /\ thrown.prefix = "Bulk job failed: "

\* C3 as stated: a poll that reports Failed stops the run at once with the
\* job-failed error, which carries stateMessage when the field is present
\* and 'Unknown error' otherwise.
C3_AsStated ==
    \A n \in 1..maxAttempts :
        Reports(n, "Failed") =>
            /\ FailedStopsAt(n)
            /\ thrown.detail =
                 IF "stateMessage" \in DOMAIN polled[n].body
                 THEN polled[n].body.stateMessage
                 ELSE "Unknown error"

\* C3 amended: a poll that reports Failed (the 60th included) stops the run
\* at once with the job-failed error: no further wait, status GET or
\* results GET; the error carries stateMessage when the field is present
\* and not empty, and 'Unknown error' when it is absent or empty.
C3_FailedStopsAtOnce ==
    \A n \in 1..maxAttempts :
        Reports(n, "Failed") =>
            /\ FailedStopsAt(n)
            /\ thrown.detail =
                 IF /\ "stateMessage" \in DOMAIN polled[n].body
                    /\ polled[n].body.stateMessage # ""
                 THEN polled[n].body.stateMessage
                 ELSE "Unknown error"

\* C3 witness: the 60th poll reports Failed with a message, and the error
\* is the job-failed error with that message.
C3_Witness ==
    /\ Reports(maxAttempts, "Failed")
    /\ "stateMessage" \in DOMAIN polled[maxAttempts].body
    /\ thrown = Err("Bulk job failed: ", "quota exceeded")

\* C4: the timeout error is raised only when all 60 status polls have been
\* made and none reported JobComplete.
C4_TimeoutOnlyAfterBudget ==
    thrown = TimeoutError =>
        /\ Len(polled) = maxAttempts
        /\ StatusGets = maxAttempts
        /\ \A i \in DOMAIN polled : ~Reports(i, "JobComplete")

NonTerminal == {"InProgress", "UploadComplete"}

Terminal == {"JobComplete", "Failed", "Aborted"}

\* C5: after a status poll that reports a non-terminal state (InProgress
\* or UploadComplete) with fewer than 60 polls made, the run is on its way
\* to the next poll: evaluating the loop, waiting, or issuing the GET.
C5_NonTerminalPollsAgain ==
    \A n \in 1..(maxAttempts - 1) :
        (Len(polled) = n /\ \E st \in NonTerminal : Reports(n, st)) =>
            pc \in {"loopTest", "waiting", "waited", "statusPending"}

\* C6: the results GET is issued only after a poll reported JobComplete;
\* once a poll has reported a terminal state no status GET follows; a run
\* whose poll reports Aborted ends in failure without a results GET.
C6_TerminalStopsPolling ==
    /\ ResultsGets > 0 => \E i \in DOMAIN polled : Reports(i, "JobComplete")
    /\ \A i \in DOMAIN polled :
         (\E st \in Terminal : Reports(i, st)) =>
             /\ Len(polled) = i
             /\ StatusGets = i
    /\ \A i \in DOMAIN polled :
         Reports(i, "Aborted") =>
             /\ ResultsGets = 0
             /\ result = None
             /\ pc = "done" => thrown # None

\* C6 witness: a run that ended after a poll reported Aborted.
C6_Witness ==
    /\ pc = "done"
    /\ \E i \in DOMAIN polled : Reports(i, "Aborted")

\* The lines of a body that hold a character other than white space: the
\* first is the header line, the others are the data lines.
NonBlankLines(lines) ==
    {i \in DOMAIN lines :
        \E k \in DOMAIN lines[i] : lines[i][k] \notin {" ", "\n", "\t", "\r"}}

\* The text of line i as the decoder sees it: the body is trimmed as a
\* whole, which shortens only its first and its last non-blank line.
SeenLine(lines, first, last, i) ==
    LET a == IF i = first THEN TrimStart(lines[i]) ELSE lines[i]
    IN  IF i = last THEN TrimEnd(a) ELSE a

\* C7: a run that returns returns exactly totalSize, done and records, with
\* done = true and totalSize = the length of records; records holds one
\* entry per non-blank data line of the fetched body, in line order, each
\* the record of that line under the header names.
C7_BulkResultShape ==
    Returned =>
        /\ DOMAIN result = {"totalSize", "done", "records"}
        /\ result.done = TRUE
        /\ result.totalSize = Len(result.records)
        /\ LET lines == Split(resultsText, "\n")
               nb    == NonBlankLines(lines)
           IN  IF nb = {}
               THEN result.records = <<>>
               ELSE LET first   == CHOOSE h \in nb : \A i \in nb : h <= i
                        last    == CHOOSE h \in nb : \A i \in nb : i <= h
                        data    == nb \ {first}
                        headers == parseHeaders(SeenLine(lines, first, last,
                                                         first))
                    IN  /\ Len(result.records) = Cardinality(data)
                        /\ \A d \in data :
                             result.records[Cardinality({e \in data : e <= d})]
                               = makeRecord(headers,
                                            parseCSVLine(SeenLine(lines, first,
                                                                  last, d)))

\* C7 witness: a returned result of two different records.
C7_Witness ==
    /\ Returned
    /\ result.totalSize = 2
    /\ result.records[1] # result.records[2]

\* C8: a refused job submission ends the run with the submission error
\* and nothing else happens: no wait, no status GET, no results GET;
\* otherwise the id of the submission response is the id in the path of
\* every status and results GET, and the POST is the first and only
\* submission.
C8_SubmissionGuardsRun ==
    /\ SubmissionRefused =>
         /\ pc = "done"
         /\ result = None
         /\ waits = <<>>
         /\ polled = <<>>
         /\ requests = <<[method |-> "POST", path |-> SubmitPath]>>
    /\ \A i \in DOMAIN requests :
         IF i = 1
         THEN requests[i] = [method |-> "POST", path |-> SubmitPath]
         ELSE /\ requests[i].method = "GET"
              /\ jobId \in JobIds
              /\ requests[i].path.id = jobId

\* C8 witness: the submission was refused and the run has ended.
C8_Witness ==
    /\ pc = "done"
    /\ SubmissionRefused
    /\ Len(requests) = 1

\* C9: every wait lasts the fixed 5 seconds and every status GET follows a
\* wait of its own: the number of completed waits minus the number of
\* status GETs issued is always 0 or 1, so no GET precedes the first wait.
C9_WaitBeforeEveryPoll ==
    /\ \A i \in DOMAIN waits : waits[i] = 5000
    /\ Len(waits) - StatusGets \in {0, 1}
    /\ StatusGets > 0 => Len(waits) > 0

\* C9 witness: a wait has completed and its status GET is still to come,
\* after earlier polls.
C9_Witness ==
    /\ pc = "waited"
    /\ Len(waits) = StatusGets + 1
    /\ StatusGets > 1

OkPolls == Cardinality({i \in DOMAIN polled : polled[i].ok})

Completed == result # None /\ thrown = None
TimedOut == result = None /\ thrown = TimeoutError
FailedRun == result = None /\ thrown # None /\ thrown # TimeoutError

\* C10 (state part): attempts stays in 0..60 and counts the status polls
\* answered with a success status; a run issues at most one submission,
\* 60 status GETs and one results GET; a run that ended ended in exactly
\* one of completion, failure and timeout, a run under way in none.
C10_Bounded ==
    /\ attempts \in 0..maxAttempts
    /\ attempts = OkPolls
    /\ SubmitPosts <= 1
    /\ StatusGets <= maxAttempts
    /\ ResultsGets <= 1
    /\ Len(requests) = SubmitPosts + StatusGets + ResultsGets
    /\ Len(requests) <= 1 + maxAttempts + 1
    /\ IF pc = "done"
       THEN \/ Completed /\ ~TimedOut /\ ~FailedRun
            \/ ~Completed /\ TimedOut /\ ~FailedRun
            \/ ~Completed /\ ~TimedOut /\ FailedRun
       ELSE result = None /\ thrown = None

\* C10: provided every network call and every wait completes, every run
\* terminates, in exactly one of completion, failure and timeout, within
\* the bounds of C10_Bounded.
C10_TerminatesBounded == []C10_Bounded /\ <>(pc = "done")

\* C10 witness: a run that ended having made all 62 calls.
C10_Witness ==
    /\ pc = "done"
    /\ Len(requests) = 1 + maxAttempts + 1
    /\ attempts = maxAttempts

\* C11: a status GET or the results GET answered with a non-success status
\* ends the run at once with an error that carries the status text of that
\* response: the request is not retried, no status or results request
\* follows it, and no result is returned.
C11_RefusedGetEndsRun ==
    /\ \A i \in DOMAIN polled :
         ~polled[i].ok =>
             /\ pc = "done"
             /\ Len(polled) = i
             /\ StatusGets = i
             /\ ResultsGets = 0
             /\ requests[Len(requests)].path = StatusPath(jobId)
             /\ result = None
             /\ thrown = Err("Failed to check job status: ",
                             polled[i].statusText)
    /\ (resultsResponse # None /\ ~resultsResponse.ok) =>
         /\ pc = "done"
         /\ ResultsGets = 1
         /\ StatusGets = Len(polled)
         /\ requests[Len(requests)].path = ResultsPath(jobId)
         /\ result = None
         /\ thrown = Err("Failed to get job results: ",
                         resultsResponse.statusText)

\* C11 witness: the third status GET was refused and the run has ended.
C11_Witness ==
    /\ pc = "done"
    /\ Len(polled) = 3
    /\ ~polled[3].ok
    /\ thrown # None

(***************************************************************************)
(* The metadata cache: what a step of a call did.  Every call records      *)
(* itself in lastCall and only the clock moves now, so a step that leaves  *)
(* now alone and ends with lastCall.op = f is a call of f.                 *)
(***************************************************************************)

\* The step is a call of the exported function op (or, for
\* getObjectMetadataWithCache, one of its two halves).
CallOf(op) == lastCall'.op = op /\ now' = now

\* The calls that store an entry.
PutOps == {"setCachedMetadata", "getObjectMetadataWithCache"}

\* C12: getCachedMetadata returns the stored metadata if and only if an
\* entry of the key is present and now - timestamp < ttl at the call; at
\* now - timestamp = ttl or later, with ttl <= 0, or with no entry, it
\* returns absent (null).
C12_LookupReturnsFreshOnly ==
    [][CallOf("getCachedMetadata") =>
        LET k       == getCacheKey(lastCall'.instanceUrl, lastCall'.objectType)
            present == k \in DOMAIN metadataCache
            ret     == lastCall'.ret
        IN  /\ ret # Null <=>
                 (present /\ now - metadataCache[k].timestamp
                                < metadataCache[k].ttl)
            /\ ret # Null => ret = metadataCache[k].data
            /\ (present /\ now - metadataCache[k].timestamp
                              >= metadataCache[k].ttl) => ret = Null
            /\ (present /\ metadataCache[k].ttl <= 0) => ret = Null
            /\ ~present => ret = Null]_vars

\* C12 witness: a lookup 100 ms after the put returned the stored metadata.
C12_Witness ==
    /\ lastCall.op = "getCachedMetadata"
    /\ lastCall.ret \in Metadata
    /\ LET k == getCacheKey(lastCall.instanceUrl, lastCall.objectType)
       IN  /\ k \in DOMAIN metadataCache
           /\ metadataCache[k].timestamp = 0
           /\ metadataCache[k].data = lastCall.ret
    /\ now = 100

\* C13: a getCachedMetadata call that finds an expired entry removes
\* exactly that entry (the entry count drops by one, every other entry is
\* unchanged); a call that hits or finds no entry leaves the store
\* unchanged.
C13_LookupEvictsOnlyExpired ==
    [][CallOf("getCachedMetadata") =>
        LET k       == getCacheKey(lastCall'.instanceUrl, lastCall'.objectType)
            expired == /\ k \in DOMAIN metadataCache
                       /\ now - metadataCache[k].timestamp
                            >= metadataCache[k].ttl
        IN  IF expired
            THEN /\ DOMAIN metadataCache' = DOMAIN metadataCache \ {k}
                 /\ Cardinality(DOMAIN metadataCache')
                      = Cardinality(DOMAIN metadataCache) - 1
                 /\ \A x \in DOMAIN metadataCache' :
                      metadataCache'[x] = metadataCache[x]
            ELSE metadataCache' = metadataCache]_vars

\* C13 witness: a lookup evicted an expired entry and two entries remain.
C13_Witness ==
    /\ lastCall.op = "getCachedMetadata"
    /\ lastCall.evicted
    /\ lastCall.ret = Null
    /\ getCacheKey(lastCall.instanceUrl, lastCall.objectType)
          \notin DOMAIN metadataCache
    /\ Cardinality(DOMAIN metadataCache) = 2

\* C14: cache key isolation.  The entry of (B, O) is created or changed only
\* by a put for (B, O) itself, and a setCachedMetadata(A, O, X) leaves what a
\* lookup of (B, O) returns unchanged for every other instance B: an entry
\* put under (A, O) is never returned by a lookup for (B, O).
C14_KeyIsolation ==
    [][/\ \A b \in InstanceUrls, o \in ObjectTypes :
            LET k == getCacheKey(b, o)
            IN  (/\ k \in DOMAIN metadataCache'
                 /\ \/ k \notin DOMAIN metadataCache
                    \/ metadataCache'[k] # metadataCache[k]) =>
                    /\ lastCall'.op \in PutOps
                    /\ lastCall'.instanceUrl = b
                    /\ lastCall'.objectType = o
       /\ CallOf("setCachedMetadata") =>
            \A b \in InstanceUrls \ {lastCall'.instanceUrl} :
                getCachedMetadata(metadataCache', b, lastCall'.objectType).ret
                  = getCachedMetadata(metadataCache, b,
                                      lastCall'.objectType).ret]_vars

\* C14 witness: with a valid entry stored under the first instance, a lookup
\* of the same object under the other instance returned absent.
C14_Witness ==
    /\ lastCall.op = "getCachedMetadata"
    /\ lastCall.instanceUrl = <<"h", ":", "a", ":", "8">>
    /\ lastCall.objectType = <<"A">>
    /\ lastCall.ret = Null
    /\ ~lastCall.evicted
    /\ LET k == getCacheKey(<<"h", ":", "a">>, <<"A">>)
       IN  /\ k \in DOMAIN metadataCache
           /\ now - metadataCache[k].timestamp < metadataCache[k].ttl

\* The ttl a setCachedMetadata call asks for: 10 minutes when omitted.
C15_Ttl(ttlArgs) == IF ttlArgs = <<>> THEN 600000 ELSE ttlArgs[1]

\* What a setCachedMetadata step does to the store.
C15_PutEffect ==
    CallOf("setCachedMetadata") =>
        LET k == getCacheKey(lastCall'.instanceUrl, lastCall'.objectType)
        IN  /\ DOMAIN metadataCache' = DOMAIN metadataCache \cup {k}
            /\ metadataCache'[k] = [data      |-> lastCall'.metadata,
                                    timestamp |-> now,
                                    ttl       |-> C15_Ttl(lastCall'.ttlArgs)]
            /\ \A x \in DOMAIN metadataCache \ {k} :
                 metadataCache'[x] = metadataCache[x]

\* As long as no other call follows the put, a lookup of its key returns
\* the new metadata exactly while less than ttl has passed.
C15_LookupAfterPut ==
    lastCall.op = "setCachedMetadata" =>
        LET k   == getCacheKey(lastCall.instanceUrl, lastCall.objectType)
            ttl == C15_Ttl(lastCall.ttlArgs)
        IN  /\ k \in DOMAIN metadataCache
            /\ metadataCache[k].data = lastCall.metadata
            /\ metadataCache[k].ttl = ttl
            /\ getCachedMetadata(metadataCache, lastCall.instanceUrl,
                                 lastCall.objectType).ret
                 = IF now - metadataCache[k].timestamp < ttl
                   THEN lastCall.metadata ELSE Null

\* C15: setCachedMetadata inserts or overwrites the single entry of its key
\* with the new data, timestamp = now and the given ttl (10 minutes when
\* omitted) and changes no other entry; a later lookup of the key, with no
\* put, invalidate or clear in between, returns the new metadata while
\* less than ttl has passed since the put.
C15_PutThenLookup == []C15_LookupAfterPut /\ [][C15_PutEffect]_vars

\* C15 witness: 100 ms after a put with the default ttl its entry is still
\* the one a lookup returns.
C15_Witness ==
    /\ lastCall.op = "setCachedMetadata"
    /\ lastCall.ttlArgs = <<>>
    /\ now = 100
    /\ LET k == getCacheKey(lastCall.instanceUrl, lastCall.objectType)
       IN  /\ metadataCache[k].timestamp = 0
           /\ metadataCache[k].ttl = 600000
    /\ getCachedMetadata(metadataCache, lastCall.instanceUrl,
                         lastCall.objectType).ret = lastCall.metadata

\* C16: getObjectMetadataWithCache issues no network call when the lookup
\* hits a valid entry and returns that entry's data; on a miss it issues
\* exactly one describe call and, on a success status, stores the fetched
\* value under (connection.instanceUrl, objectType) with the default ttl and
\* returns that same value.
C16_FetchOnlyOnMiss ==
    [][CallOf("getObjectMetadataWithCache") =>
        LET i   == lastCall'.instanceUrl
            o   == lastCall'.objectType
            k   == getCacheKey(i, o)
            hit == /\ k \in DOMAIN metadataCache
                   /\ now - metadataCache[k].timestamp < metadataCache[k].ttl
        IN  /\ fetches \subseteq fetches' =>
                IF hit
                THEN /\ fetches' = fetches
                     /\ lastCall'.state = "returned"
                     /\ lastCall'.ret = metadataCache[k].data
                     /\ lastCall'.describes = 0
                ELSE /\ Cardinality(fetches' \ fetches) = 1
                     /\ \A f \in fetches' \ fetches :
                          f.url = i /\ f.path = DescribePath(o)
                     /\ lastCall'.state = "awaiting"
                     /\ lastCall'.describes = 1
            /\ (fetches' # fetches /\ fetches' \subseteq fetches
                  /\ lastCall'.state = "returned") =>
                /\ Cardinality(fetches \ fetches') = 1
                /\ lastCall'.describes = 1
                /\ lastCall'.ret \in Metadata
                /\ k \in DOMAIN metadataCache'
                /\ metadataCache'[k] = [data      |-> lastCall'.ret,
                                        timestamp |-> now,
                                        ttl       |-> 600000]]_vars

\* C16 witness: a call that missed has fetched, stored and returned the
\* description, with one describe call.
C16_Witness ==
    /\ lastCall.op = "getObjectMetadataWithCache"
    /\ lastCall.state = "returned"
    /\ lastCall.describes = 1
    /\ fetches = {}
    /\ LET k == getCacheKey(lastCall.instanceUrl, lastCall.objectType)
       IN  /\ k \in DOMAIN metadataCache
           /\ metadataCache[k].data = lastCall.ret
           /\ metadataCache[k].timestamp = now

\* C17: when the describe call of getObjectMetadataWithCache returns a
\* non-success status, the call fails with the metadata-fetch error and
\* inserts nothing: the failing step leaves every entry as it was, the
\* lookup before it removed at most the expired entry of the key, and when
\* no other call ran during the wait the store holds no entry of the key
\* afterwards.
C17_FailedFetchStoresNothing ==
    [][CallOf("getObjectMetadataWithCache") =>
        LET i == lastCall'.instanceUrl
            o == lastCall'.objectType
            k == getCacheKey(i, o)
        IN  /\ (fetches' # fetches /\ fetches \subseteq fetches') =>
                /\ k \notin DOMAIN metadataCache'
                /\ DOMAIN metadataCache' = DOMAIN metadataCache \ {k}
                /\ \A x \in DOMAIN metadataCache' :
                     metadataCache'[x] = metadataCache[x]
            /\ lastCall'.state = "threw" =>
                /\ \E text \in StatusTexts :
                     lastCall'.error
                       = Err("Failed to get metadata for ", <<o, text>>)
                /\ lastCall'.ret = Null
                /\ metadataCache' = metadataCache
                /\ (/\ lastCall.op = "getObjectMetadataWithCache"
                    /\ lastCall.state = "awaiting"
                    /\ lastCall.instanceUrl = i
                    /\ lastCall.objectType = o) =>
                        k \notin DOMAIN metadataCache']_vars

\* C17 witness: a call failed on its describe response; its key has no
\* entry and the entry of another key is still stored.
C17_Witness ==
    /\ lastCall.op = "getObjectMetadataWithCache"
    /\ lastCall.state = "threw"
    /\ getCacheKey(lastCall.instanceUrl, lastCall.objectType)
          \notin DOMAIN metadataCache
    /\ Cardinality(DOMAIN metadataCache) >= 1

\* A key that has no entry gets one only by a put for that key.
AbsentUntilPut(keys) ==
    \A k \in keys :
        (k \notin DOMAIN metadataCache /\ k \in DOMAIN metadataCache') =>
            /\ lastCall'.op \in PutOps
            /\ getCacheKey(lastCall'.instanceUrl, lastCall'.objectType) = k

\* Right after clearInstanceCache(instance) no object has an entry under
\* the instance and every lookup under it returns absent.
C18_ClearedInstance ==
    lastCall.op = "clearInstanceCache" =>
        \A o \in ObjectTypes :
            /\ getCacheKey(lastCall.instanceUrl, o) \notin DOMAIN metadataCache
            /\ getCachedMetadata(metadataCache, lastCall.instanceUrl, o).ret
                 = Null

\* C18: after clearInstanceCache(instance) the store holds no entry put
\* under that instance, valid or expired, for any object name, and none
\* appears before the next put for (instance, O): every lookup of
\* (instance, O) until then returns absent.
C18_NoEntryAfterClearInstance ==
    /\ []C18_ClearedInstance
    /\ [][AbsentUntilPut({getCacheKey(i, o) :
                             i \in InstanceUrls, o \in ObjectTypes})]_vars

\* C18 witness: clearInstanceCache of the second instance removed its entry
\* and the two entries of the first instance are still stored.
C18_Witness ==
    /\ lastCall.op = "clearInstanceCache"
    /\ lastCall.instanceUrl = <<"h", ":", "a", ":", "8">>
    /\ lastCall.removed = 1
    /\ Cardinality(DOMAIN metadataCache) = 2

\* Right after clearMetadataCache() the store is empty, getCacheStats
\* would report zeros and every lookup returns absent.
C19_Cleared ==
    lastCall.op = "clearMetadataCache" =>
        /\ DOMAIN metadataCache = {}
        /\ getCacheStats(metadataCache)
             = [total |-> 0, valid |-> 0, expired |-> 0]
        /\ \A i \in InstanceUrls, o \in ObjectTypes :
             getCachedMetadata(metadataCache, i, o).ret = Null

\* C19: after clearMetadataCache() the store is empty (getCacheStats
\* reports total = valid = expired = 0, every lookup returns absent) and
\* stays empty until the next put.
C19_EmptyAfterClear ==
    /\ []C19_Cleared
    /\ [][(DOMAIN metadataCache = {} /\ DOMAIN metadataCache' # {}) =>
            lastCall'.op \in PutOps]_vars

\* C19 witness: clearMetadataCache removed three entries.
C19_Witness ==
    /\ lastCall.op = "clearMetadataCache"
    /\ lastCall.removed = 3
    /\ DOMAIN metadataCache = {}

\* In every state the counts getCacheStats would report add up to the
\* number of stored entries.
C20_CountsAddUp ==
    LET stats == getCacheStats(metadataCache)
    IN  /\ stats.total = stats.valid + stats.expired
        /\ stats.total = Cardinality(DOMAIN metadataCache)

\* C20: getCacheStats reports valid = the number of stored entries with
\* now - timestamp < ttl and expired = the number of stored entries that are
\* expired and not yet evicted, so total = valid + expired = the stored
\* entry count in every reachable state; the call removes and changes no
\* entry.
C20_StatsCountEntries ==
    /\ []C20_CountsAddUp
    /\ [][CallOf("getCacheStats") =>
            LET isFresh(k) == now - metadataCache[k].timestamp
                                < metadataCache[k].ttl
                ret == lastCall'.ret
            IN  /\ ret.valid
                     = Cardinality({k \in DOMAIN metadataCache : isFresh(k)})
                /\ ret.expired
                     = Cardinality({k \in DOMAIN metadataCache : ~isFresh(k)})
                /\ ret.total = ret.valid + ret.expired
                /\ ret.total = Cardinality(DOMAIN metadataCache)
                /\ metadataCache' = metadataCache]_vars

\* C20 witness: getCacheStats reported one valid and two expired entries
\* and the three entries are still stored.
C20_Witness ==
    /\ lastCall.op = "getCacheStats"
    /\ lastCall.ret = [total |-> 3, valid |-> 1, expired |-> 2]
    /\ Cardinality(DOMAIN metadataCache) = 3

\* The stored entries that have expired.
ExpiredKeys ==
    {k \in DOMAIN metadataCache :
        now - metadataCache[k].timestamp >= metadataCache[k].ttl}

\* In every state getCacheStats would count every stored expired entry.
C21_ExpiredCounted ==
    getCacheStats(metadataCache).expired = Cardinality(ExpiredKeys)

\* C21: entries are removed only lazily.  An entry leaves the store only by
\* a lookup of its own key that finds it expired, by clearInstanceCache or
\* by clearMetadataCache; a put removes none and the passage of time
\* removes none, so an expired entry that is not read stays stored and
\* getCacheStats counts it as expired.
C21_RemovedOnlyLazily ==
    /\ []C21_ExpiredCounted
    /\ [][/\ \A k \in DOMAIN metadataCache \ DOMAIN metadataCache' :
               \/ /\ now' = now
                  /\ lastCall'.op \in {"getCachedMetadata",
                                       "getObjectMetadataWithCache"}
                  /\ getCacheKey(lastCall'.instanceUrl,
                                 lastCall'.objectType) = k
                  /\ k \in ExpiredKeys
               \/ CallOf("clearInstanceCache")
               \/ CallOf("clearMetadataCache")
          /\ now' # now => metadataCache' = metadataCache
          /\ CallOf("setCachedMetadata") =>
               DOMAIN metadataCache \subseteq DOMAIN metadataCache']_vars

\* C21 witness: an entry put at 0 with ttl 100 is still stored at the
\* instant DEFAULT_TTL, where getCacheStats has just counted it as expired.
C21_Witness ==
    /\ now = DEFAULT_TTL
    /\ lastCall.op = "getCacheStats"
    /\ lastCall.ret.expired >= 1
    /\ \E k \in DOMAIN metadataCache :
         metadataCache[k].timestamp = 0 /\ metadataCache[k].ttl = 100

\* The store is a well-formed Map: keys built by getCacheKey, one entry
\* each, stamped no later than now.
C22_Uncorrupted ==
    \A k \in DOMAIN metadataCache :
        /\ \E a \in RaceArgs : k = getCacheKey(a[1], a[2])
        /\ metadataCache[k].data \in Metadata
        /\ metadataCache[k].timestamp \in Times
        /\ metadataCache[k].timestamp <= now
        /\ metadataCache[k].ttl = 600000

\* While no call follows the put of a describe response, the entry of its
\* key carries the data that call fetched.
C22_LastPutWins ==
    (/\ lastCall.op = "getObjectMetadataWithCache"
     /\ lastCall.state = "returned"
     /\ lastCall.describes = 1) =>
        LET k == getCacheKey(lastCall.instanceUrl, lastCall.objectType)
        IN  k \in DOMAIN metadataCache
              /\ metadataCache[k].data = lastCall.ret

\* C22: no exclusion spans the lookup, fetch and put of
\* getObjectMetadataWithCache.  A call that misses issues its own describe
\* call, also when another call for the same key is waiting for its own;
\* each put of a response writes the one entry of the key with the data it
\* fetched and timestamp = now and changes no other entry, so after both
\* calls the store holds one well-formed entry of the key, that of the put
\* that ran last.
C22_RacingFetches ==
    /\ [](C22_Uncorrupted /\ C22_LastPutWins)
    /\ [][CallOf("getObjectMetadataWithCache") =>
            LET i      == lastCall'.instanceUrl
                o      == lastCall'.objectType
                k      == getCacheKey(i, o)
                missed == \/ k \notin DOMAIN metadataCache
                          \/ k \in ExpiredKeys
            IN  /\ (fetches \subseteq fetches' /\ missed) =>
                    /\ Cardinality(fetches') = Cardinality(fetches) + 1
                    /\ \A f \in fetches' \ fetches :
                         f.url = i /\ f.path = DescribePath(o)
                /\ (fetches' # fetches /\ fetches' \subseteq fetches
                      /\ lastCall'.state = "returned") =>
                    /\ DOMAIN metadataCache' = DOMAIN metadataCache \cup {k}
                    /\ metadataCache'[k] = [data      |-> lastCall'.ret,
                                            timestamp |-> now,
                                            ttl       |-> 600000]
                    /\ \A x \in DOMAIN metadataCache \ {k} :
                         metadataCache'[x] = metadataCache[x]]_vars

\* C22 witness: of two calls that both missed the same key, the first has
\* stored what it fetched and the second still waits for its own describe
\* response.
C22_Witness ==
    /\ lastCall.op = "getObjectMetadataWithCache"
    /\ lastCall.state = "returned"
    /\ lastCall.describes = 1
    /\ \E f \in fetches :
         /\ f.url = lastCall.instanceUrl
         /\ f.path = DescribePath(lastCall.objectType)
    /\ metadataCache[getCacheKey(lastCall.instanceUrl,
                                 lastCall.objectType)].timestamp = 0
    /\ now = 0

(***************************************************************************)
(* Two runs of executeBulkQuery.                                           *)
(***************************************************************************)

\* The variables of run r, running or parked.
RunView(r) == IF run = r THEN Running ELSE parked

\* What one run has done, told from its own variables and logs alone, and
\* the job id of the other run.
C23_OnItsOwn(v, otherId) ==
    LET posts  == {i \in DOMAIN v.requests : v.requests[i].method = "POST"}
        gets   == {i \in DOMAIN v.requests : v.requests[i].method = "GET"}
        polls  == Len(v.polled)
        answer == v.polled[polls].body
    IN  /\ v.pc # "start" =>
            /\ posts = {1}
            /\ v.requests[1].path = SubmitPath
        /\ v.jobId \in JobIds => v.jobId # otherId
        /\ \A i \in gets :
             /\ v.requests[i].path.id = v.jobId
             /\ v.requests[i].path.id # otherId
        /\ v.attempts = polls
        /\ v.attempts <= 60
        /\ v.pc = "done" =>
             /\ polls >= 1
             /\ \A i \in 1..(polls - 1) :
                  v.polled[i].body.state = "InProgress"
             /\ IF answer.state = "Failed"
                THEN /\ v.thrown = Err("Bulk job failed: ",
                                       failureMessage(answer))
                     /\ v.result = None
                ELSE IF answer.state = "JobComplete"
                THEN /\ v.thrown = None
                     /\ v.result
                          = bulkResult(parseCSVToRecords(v.resultsText))
                     /\ v.requests[Len(v.requests)].path
                          = ResultsPath(v.jobId)
                ELSE /\ polls = 60
                     /\ v.thrown = TimeoutError
                     /\ v.result = None

\* Each of the two runs is as its own responses make it.
C23_EachRunOnItsOwn ==
    /\ C23_OnItsOwn(RunView("r1"), RunView("r2").jobId)
    /\ C23_OnItsOwn(RunView("r2"), RunView("r1").jobId)

\* A step of the running run changes nothing of the other run, and a
\* switch changes nothing of either.
C23_Frame ==
    /\ RunView("r1")' # RunView("r1") => RunView("r2")' = RunView("r2")
    /\ run' = run => parked' = parked

\* C23: two concurrent runs of executeBulkQuery with the same arguments are
\* independent.  Each issues its own submission POST and has its own job
\* id, each polls and fetches only its own job id, each counts its own
\* polls against its own budget of 60, and the outcome of each (success,
\* failure, timeout) is the one its own responses give; no step of one run
\* changes a variable of the other.
C23_RunsIndependent == []C23_EachRunOnItsOwn /\ [][C23_Frame]_vars

\* C23 witness: both runs have ended, one by the timeout after its 60
\* polls and the other with the records of its own job.
C23_Witness ==
    /\ pc = "done"
    /\ parked.pc = "done"
    /\ thrown = TimeoutError
    /\ attempts = 60
    /\ parked.result # None
    /\ parked.attempts = 1
    /\ parked.jobId # jobId

(***************************************************************************)
(* The connection, the transport and the synchronous query.                *)
(***************************************************************************)

\* C24: getSalesforceConnection returns a connection descriptor if and only
\* if the sf_access_token and sf_instance_url cookies are both present and
\* non-empty, and absent (null) otherwise, a missing cookie header
\* included; the refresh token is optional and never changes the outcome,
\* and the call always returns.
C24_ConnectionIffBothCookies ==
    lastCall.op = "getSalesforceConnection" =>
        LET header == lastCall.req.headers.cookie
            ret    == lastCall.ret
            has(h, name) == /\ h.present
                            /\ name \in DOMAIN h.cookies
                            /\ h.cookies[name] # ""
            both(h) == has(h, "sf_access_token") /\ has(h, "sf_instance_url")
        IN  /\ ret # Null <=> both(header)
            /\ ret # Null =>
                 /\ DOMAIN ret = {"accessToken", "instanceUrl", "refreshToken"}
                 /\ ret.accessToken = header.cookies["sf_access_token"]
                 /\ ret.instanceUrl = header.cookies["sf_instance_url"]
            /\ \A h \in CookieHeaders :
                 both(h) = both(header) =>
                    ((getSalesforceConnection([headers |-> [cookie |-> h]])
                        = Null) <=> (ret = Null))

\* C24 witness: a request with the two mandatory cookies and no refresh
\* token got a connection.
C24_Witness ==
    /\ lastCall.op = "getSalesforceConnection"
    /\ lastCall.ret # Null
    /\ lastCall.ret.refreshToken = Undefined
    /\ lastCall.ret.accessToken = "x"

C26_OneGetNoPaging ==
    lastCall.op = "executeQuery" =>
        /\ Len(lastCall.fetched) = 1
        /\ startsWith(lastCall.fetched[1].url,
                      lastCall.connection.instanceUrl \o QueryPrefix)
        /\ "method" \notin DOMAIN lastCall.fetched[1].init
        /\ lastCall.state # "awaiting" =>
             IF lastCall.response.ok
             THEN /\ lastCall.state = "returned"
                  /\ lastCall.ret = lastCall.response.body
             ELSE /\ lastCall.state = "threw"
                  /\ lastCall.error
                       = Err("Query failed: ", lastCall.response.statusText)

\* C26 witness: a first page with done = false was returned after the one
\* GET.
C26_Witness ==
    /\ lastCall.op = "executeQuery"
    /\ lastCall.state = "returned"
    /\ ~lastCall.ret.done
    /\ Len(lastCall.fetched) = 1

\* C27: executeQuery URL-encodes the query exactly once: the q parameter of
\* the requested path, URL-decoded once, is the original query text.
C27_EncodedOnce ==
    lastCall.op = "executeQuery" =>
        LET url  == lastCall.fetched[1].url
            path == SubSeq(url, Len(lastCall.connection.instanceUrl) + 1,
                           Len(url))
        IN  /\ startsWith(path, QueryPrefix)
            /\ QueryPrefix \o QParameter(path) = path
            /\ decodeURIComponent(QParameter(path)) = lastCall.query

\* C27 witness: a query with a percent sign, an ampersand and a blank was
\* requested.
C27_Witness ==
    /\ lastCall.op = "executeQuery"
    /\ lastCall.query = <<"%", "&", " ">>
    /\ QParameter(SubSeq(lastCall.fetched[1].url,
                         Len(lastCall.connection.instanceUrl) + 1,
                         Len(lastCall.fetched[1].url)))
         = <<"%", "2", "5", "%", "2", "6", "%", "2", "0">>

(***************************************************************************)
(* What a logged call of the decoder says.                                 *)
(***************************************************************************)

Quote == "\""

\* The number of quote characters of line before position i.
QuotesBefore(line, i) == Cardinality({j \in 1..(i - 1) : line[j] = Quote})

\* The commas of line that stand outside quotes: an even number of quote
\* characters comes before them.
Separators(line) ==
    {i \in 1..Len(line) : line[i] = "," /\ QuotesBefore(line, i) % 2 = 0}

\* The k-th position of a set of positions.
Kth(S, k) == CHOOSE x \in S : Cardinality({y \in S : y < x}) = k - 1

\* The k-th stretch of line between two separators.
Segment(line, k) ==
    LET S  == Separators(line)
        lo == IF k = 1 THEN 0 ELSE Kth(S, k - 1)
        hi == IF k = Cardinality(S) + 1 THEN Len(line) + 1 ELSE Kth(S, k)
    IN  SubSeq(line, lo + 1, hi - 1)

NotQuote(c) == c # Quote
Unquoted(s) == SelectSeq(s, NotQuote)

\* C28: parseCSVLine ends a field at a comma only outside quotes, so it
\* returns 1 + (commas outside quotes) fields; what is not a quote is kept
\* verbatim and in order, commas inside quotes included; a quote toggles
\* and adds nothing, but a doubled quote inside quotes adds one literal
\* quote and stays inside: a line that is one quoted field with a comma,
\* as "Acme, Inc.", is the single value without its quotes.
C28_QuoteAwareSplit ==
    lastCall.op = "parseCSVLine" =>
        LET line == lastCall.line
            ret  == lastCall.ret
        IN  /\ Len(ret) = 1 + Cardinality(Separators(line))
            /\ \A k \in 1..Len(ret) :
                    Unquoted(ret[k]) = Unquoted(Segment(line, k))
            \* one quoted field
            /\ (/\ Len(line) >= 2
                /\ {i \in 1..Len(line) : line[i] = Quote} = {1, Len(line)})
               => ret = <<SubSeq(line, 2, Len(line) - 1)>>
            \* a doubled quote inside a quoted field
            /\ \A i \in 2..(Len(line) - 2) :
                    {j \in 1..Len(line) : line[j] = Quote}
                        = {1, i, i + 1, Len(line)}
                    => ret = <<SubSeq(line, 2, i - 1) \o <<Quote>>
                                 \o SubSeq(line, i + 2, Len(line) - 1)>>

C28_Witness ==
    /\ lastCall.op = "parseCSVLine"
    /\ lastCall.line = <<Quote, "a", ",", " ", Quote>>
    /\ lastCall.ret = << <<"a", ",", " ">> >>

\* The header line of a text, and the names on it.
HeaderLine(csvText) == Split(Trim(csvText), "\n")[1]
Names(fields) == {StripQuotes(fields[k]) : k \in 1..Len(fields)}

\* C29: every record is keyed by the header names, the header line being
\* split by the quote-aware rule of data lines and each name stripped of
\* one leading and one trailing quote, so that a quoted name holding a
\* comma is one key.
C29_KeysAreQuoteAwareHeaderNames ==
    lastCall.op = "parseCSVToRecords" =>
        \A k \in 1..Len(lastCall.ret) :
            DOMAIN lastCall.ret[k]
                = Names(parseCSVLine(HeaderLine(lastCall.csvText)))

\* The coercion of a field text by the rules as they are stated: null for
\* the empty text, a boolean for true and false, the number for a text
\* that is all of it a finite number and that the number prints back as,
\* or prints back as once .0 is added, and the text itself otherwise.
isFinite(n) == ~isNaN(n) /\ ~isInfinite(n)
Coerced(field) ==
    IF field = <<>> THEN Null
    ELSE IF field = <<"t", "r", "u", "e">> THEN Bool(TRUE)
    ELSE IF field = <<"f", "a", "l", "s", "e">> THEN Bool(FALSE)
    ELSE IF /\ isFinite(Number(field))
            /\ \/ numToString(Number(field)) = field
               \/ numToString(Number(field)) \o <<".", "0">> = field
         THEN Num(Number(field))
         ELSE Str(field)

\* A string, a finite number, a boolean or null.
IsScalar(value) ==
    \/ value = Null
    \/ value.t \in {"string", "boolean"}
    \/ value.t = "number" /\ isFinite(value.v)

\* A text of a header line of distinct unquoted names and one data line
\* that is not blank.
OneRecordText(csvText) ==
    LET lines == Split(Trim(csvText), "\n")
    IN  /\ Len(lines) = 2
        /\ Trim(lines[2]) # <<>>
        /\ Unquoted(lines[1]) = lines[1]
        /\ \A j, k \in 1..Len(Split(lines[1], ",")) :
                Split(lines[1], ",")[j] = Split(lines[1], ",")[k] => j = k

\* C30: every field is coerced by the first rule that matches (empty to
\* null, true and false to booleans, a text that is a finite number and
\* round-trips to that number, any other text to itself), and every value
\* of a record is a string, a finite number, a boolean or null.
C30_CoercedByTheRules ==
    lastCall.op = "parseCSVToRecords" =>
        /\ \A k \in 1..Len(lastCall.ret) :
                \A name \in DOMAIN lastCall.ret[k] :
                    IsScalar(lastCall.ret[k][name])
        /\ OneRecordText(lastCall.csvText) =>
                LET lines  == Split(Trim(lastCall.csvText), "\n")
                    names  == Split(lines[1], ",")
                    values == parseCSVLine(lines[2])
                IN  lastCall.ret =
                        << [name \in {names[k] : k \in 1..Len(names)} |->
                              LET k == CHOOSE i \in 1..Len(names) :
                                           names[i] = name
                              IN  Coerced(IF k <= Len(values)
                                          THEN values[k] ELSE <<>>)] >>

\* Every value of every record of a result is one that the export quotes.
AllQuoted(queryResult) ==
    \A k \in 1..Len(queryResult.records) :
        \A name \in DOMAIN queryResult.records[k] : queryResult.records[k][name] # Null

\* C31: the text exported for flat records (a header line, one line per
\* record, every value quoted with its quotes doubled) decodes to the same
\* records in the same order, each value being what the coercion rules as
\* stated make of its text, commas and quotes inside values included.
C31_RoundTrip ==
    (lastCall.op = "exportToCSV" /\ lastCall.exported
        /\ AllQuoted(lastCall.result))
    => LET records == lastCall.result.records
       IN  parseCSVToRecords(lastCall.csvContent) =
               [k \in 1..Len(records) |->
                   [name \in DOMAIN records[k] |->
                       Coerced(String(records[k][name]))]]

\* C32: a field that the decoder turns into a number n is a number again
\* once n is printed: the printed text of n passes the decoder's numeric
\* round-trip check and decodes to the same n.
C32_NumberPrintsToNumber ==
    lastCall.op = "parseCSVToRecords" =>
        \A k \in 1..Len(lastCall.ret) :
            \A name \in DOMAIN lastCall.ret[k] :
                LET value == lastCall.ret[k][name]
                IN  value.t = "number" =>
                        parseCSVToRecords(FieldText(numToString(value.v)))
                            = <<(OneColumn :> value)>>

\* The field 12.0 is the number 12, which prints as 12.
C32_Witness ==
    /\ lastCall.op = "parseCSVToRecords"
    /\ lastCall.csvText = FieldText(<<"1", "2", ".", "0">>)
    /\ lastCall.ret = <<(OneColumn :> Num(Number(<<"1", "2">>)))>>
    /\ numToString(lastCall.ret[1][OneColumn].v) = <<"1", "2">>

\* The lines of a text after its header line that are not blank, in order.
NotBlank(line) == Trim(line) # <<>>
DataLines(csvText) == SelectSeq(Tail(Split(Trim(csvText), "\n")), NotBlank)

\* C33: parseCSVToRecords returns one record for each line after the
\* header line that is not blank, in the order of the lines; blank lines
\* give no record, and a text that is empty or is only a header line gives
\* the empty sequence.
C33_OneRecordPerDataLine ==
    lastCall.op = "parseCSVToRecords" =>
        LET csvText == lastCall.csvText
            headers == parseHeaders(HeaderLine(csvText))
            data    == DataLines(csvText)
        IN  /\ Len(lastCall.ret) = Len(data)
            /\ \A j \in 1..Len(data) :
                    lastCall.ret[j] = makeRecord(headers, parseCSVLine(data[j]))
            /\ (\A i \in 1..Len(Trim(csvText)) : Trim(csvText)[i] # "\n")
                    => lastCall.ret = <<>>

C33_Witness ==
    /\ lastCall.op = "parseCSVToRecords"
    /\ lastCall.csvText
            = <<"a", "\n", "1", "\n", " ", "\n", "\n", "b", "\n">>
    /\ lastCall.ret = << (<<"a">> :> Num(Number(<<"1">>))),
                         (<<"a">> :> Str(<<"b">>)) >>

\* The quote at position p of line opens a field and is never matched:
\* it stands outside quotes and all that follows it stands inside.
Unmatched(line, p) ==
    /\ line[p] = Quote
    /\ QuotesBefore(line, p) % 2 = 0
    /\ \A i \in (p + 1)..Len(line) :
            line[i] # Quote => QuotesBefore(line, i) % 2 = 1
    /\ QuotesBefore(line, Len(line) + 1) % 2 = 1

\* s ends with t.
endsWith(s, t) ==
    Len(t) <= Len(s) /\ SubSeq(s, Len(s) - Len(t) + 1, Len(s)) = t

\* C34: the decoder returns for every text, malformed ones included, and
\* never fails: every call is logged with the records it returned, one per
\* data line; a quote that opens a field and is not matched makes the
\* rest of its line part of that field, which is then the last one, the
\* commas of the rest included.
C34_LenientAndTotal ==
    /\ lastCall.op = "parseCSVToRecords" =>
            /\ Len(lastCall.ret) = Len(DataLines(lastCall.csvText))
            /\ \A k \in 1..Len(lastCall.ret) :
                    DOMAIN lastCall.ret[k]
                        = Names(Split(HeaderLine(lastCall.csvText), ","))
    /\ lastCall.op = "parseCSVLine" =>
            LET line == lastCall.line
                ret  == lastCall.ret
            IN  /\ Len(ret) >= 1
                /\ \A p \in 1..Len(line) :
                        Unmatched(line, p) =>
                            /\ Len(ret) = 1 + Cardinality(
                                    {i \in Separators(line) : i < p})
                            /\ endsWith(Unquoted(ret[Len(ret)]),
                                        Unquoted(SubSeq(line, p + 1,
                                                        Len(line))))

\* The second field opens a quote that is never closed.
C34_Witness ==
    /\ lastCall.op = "parseCSVLine"
    /\ lastCall.line = <<",", Quote, "a", ",", "a">>
    /\ Unmatched(lastCall.line, 2)
    /\ lastCall.ret = << <<>>, <<"a", ",", "a">> >>

\* C35: clearInstanceCache(X) leaves every entry put under another
\* instance Y unchanged (same data, timestamp and ttl), also when X
\* followed by a colon is the beginning of the keys of Y.
C35_OtherInstancesUntouched ==
    [][CallOf("clearInstanceCache") =>
        \A y \in InstanceUrls, o \in ObjectTypes :
            (y # lastCall'.instanceUrl
                /\ getCacheKey(y, o) \in DOMAIN metadataCache)
            => /\ getCacheKey(y, o) \in DOMAIN metadataCache'
               /\ metadataCache'[getCacheKey(y, o)]
                    = metadataCache[getCacheKey(y, o)]]_vars

\* C36: two different (instanceUrl, objectType) pairs never share an
\* entry: a put under one pair changes nothing of what a lookup of another
\* pair returns, also when the URL or the object name holds a colon.
C36_PairsShareNoEntry ==
    [][CallOf("setCachedMetadata") =>
        \A q \in KeyArgs :
            q # <<lastCall'.instanceUrl, lastCall'.objectType>>
            => getCachedMetadata(metadataCache', q[1], q[2]).ret
                 = getCachedMetadata(metadataCache, q[1], q[2]).ret]_vars

\* A step in which a lookup hits: getCachedMetadata returns data, or
\* getObjectMetadataWithCache returns what it found without a describe
\* call.
C37_Hit ==
    \/ CallOf("getCachedMetadata") /\ lastCall'.ret # Null
    \/ /\ CallOf("getObjectMetadataWithCache")
       /\ lastCall'.state = "returned"
       /\ lastCall'.describes = 0

\* C37: expiry is absolute.  The timestamp and the ttl of an entry are
\* those of its last put (timestamp = the time of the put) and change by
\* no other step, a hit included, which leaves the whole store unchanged;
\* and a lookup returns an entry only at a time before timestamp + ttl:
\* however many hits came in between, an entry put at t with ttl d is not
\* returned at t + d or later.
C37_AbsoluteExpiry ==
    [][/\ C37_Hit =>
            LET k == getCacheKey(lastCall'.instanceUrl, lastCall'.objectType)
            IN  /\ k \in DOMAIN metadataCache
                /\ lastCall'.ret = metadataCache[k].data
                /\ now < metadataCache[k].timestamp + metadataCache[k].ttl
                /\ metadataCache' = metadataCache
       /\ \A k \in DOMAIN metadataCache \cap DOMAIN metadataCache' :
            (\/ metadataCache'[k].timestamp # metadataCache[k].timestamp
             \/ metadataCache'[k].ttl # metadataCache[k].ttl) =>
                /\ lastCall'.op \in PutOps
                /\ getCacheKey(lastCall'.instanceUrl, lastCall'.objectType) = k
                /\ metadataCache'[k].timestamp = now
       /\ \A k \in DOMAIN metadataCache' \ DOMAIN metadataCache :
            metadataCache'[k].timestamp = now]_vars

\* C37 witness: a lookup hit an entry some time after its put, and the
\* entry still carries the time of the put.
C37_Witness ==
    /\ lastCall.op = "getCachedMetadata"
    /\ lastCall.ret # Null
    /\ now = 100
    /\ LET k == getCacheKey(lastCall.instanceUrl, lastCall.objectType)
       IN  /\ k \in DOMAIN metadataCache
           /\ metadataCache[k].timestamp = 0
           /\ metadataCache[k].ttl = DEFAULT_TTL

\* A step in which the describe response of a call arrives.
C38_Response ==
    /\ CallOf("getObjectMetadataWithCache")
    /\ lastCall'.describes = 1
    /\ lastCall'.state \in {"returned", "threw"}

\* The response arrives right after the instance of the call, or the whole
\* cache, was cleared while the call was waiting.
C38_ResponseAfterInvalidation == C38_Response /\ lastCall'.invalidated

\* C38 as stated: what a call fetched is not inserted when an invalidation
\* of its instance ran while it was waiting for the describe response.
C38_AsStated ==
    [][C38_ResponseAfterInvalidation => metadataCache' = metadataCache]_vars

\* Right after an invalidation the store holds no entry of the instance
\* (none at all after clearMetadataCache), calls under way or not.
C38_Invalidated ==
    /\ lastCall.op = "clearMetadataCache" => DOMAIN metadataCache = {}
    /\ lastCall.op = "clearInstanceCache" =>
            \A a \in RaceArgs :
                a[1] = lastCall.instanceUrl
                => getCacheKey(a[1], a[2]) \notin DOMAIN metadataCache

\* C38 amended: an invalidation empties the store of the instance, but a
\* call that was waiting for its describe response meanwhile still
\* inserts what it fetched when the response is a success (timestamp = the
\* time of the response, the default ttl), and inserts nothing when it is
\* not: the invalidation does not reach calls under way.
C38_InFlightFetchStillInserts ==
    /\ []C38_Invalidated
    /\ [][C38_Response =>
            LET k == getCacheKey(lastCall'.instanceUrl, lastCall'.objectType)
            IN  IF lastCall'.state = "returned"
                THEN /\ DOMAIN metadataCache' = DOMAIN metadataCache \cup {k}
                     /\ metadataCache'[k] = [data      |-> lastCall'.ret,
                                             timestamp |-> now,
                                             ttl       |-> 600000]
                     /\ \A x \in DOMAIN metadataCache \ {k} :
                            metadataCache'[x] = metadataCache[x]
                ELSE metadataCache' = metadataCache]_vars

\* C38 witness: the call returned what it fetched right after its instance
\* had been cleared under it, and the store holds that data.
C38_Witness ==
    /\ lastCall.op = "getObjectMetadataWithCache"
    /\ lastCall.state = "returned"
    /\ lastCall.describes = 1
    /\ lastCall.invalidated
    /\ LET k == getCacheKey(lastCall.instanceUrl, lastCall.objectType)
       IN  k \in DOMAIN metadataCache /\ metadataCache[k].data = lastCall.ret

\* C39: when the header names are distinct, every record has exactly the
\* header names as its keys: a header without a field on the data line
\* has the value null, a field in its place is coerced, and the fields
\* past the last header are in no record.
C39_KeysAreTheHeaders ==
    lastCall.op = "parseCSVToRecords" =>
        LET headers == parseHeaders(HeaderLine(lastCall.csvText))
            data    == DataLines(lastCall.csvText)
        IN  (\A j, k \in 1..Len(headers) : headers[j] = headers[k] => j = k)
            => \A r \in 1..Len(lastCall.ret) :
                  LET values == parseCSVLine(data[r])
                  IN  /\ DOMAIN lastCall.ret[r]
                            = {headers[k] : k \in 1..Len(headers)}
                      /\ Cardinality(DOMAIN lastCall.ret[r]) = Len(headers)
                      /\ \A k \in 1..Len(headers) :
                            lastCall.ret[r][headers[k]] =
                                IF k > Len(values) THEN Null
                                ELSE coerceValue(<<values[k]>>, 1)

\* C39 witness: two headers and a data line of one field.
C39_Witness ==
    /\ lastCall.op = "parseCSVToRecords"
    /\ lastCall.csvText = <<"a", ",", "b", "\n", "1">>
    /\ lastCall.ret = << (<<"a">> :> Num(Number(<<"1">>))) @@ (<<"b">> :> Null) >>

\* The request carries both cookies of a connection, neither empty.
HasConnection(req) ==
    /\ req.headers.cookie.present
    /\ \A name \in {"sf_access_token", "sf_instance_url"} :
            /\ name \in DOMAIN req.headers.cookie.cookies
            /\ req.headers.cookie.cookies[name] # ""

\* The body of the request carries a query that is a string and not empty.
HasQuery(req) ==
    /\ req.body # Null
    /\ req.body.query.t = "string"
    /\ req.body.query.v # <<>>

\* C40: the handler answers every request with exactly one status: 405
\* when the method is not POST, else 401 without a connection, else 400
\* when the query is missing or not a string, else 200 with the result of
\* executeQuery or 500 when it fails; and it calls Salesforce for no
\* request that it answers with 405, 401 or 400.
C40_OneStatusByPrecedence ==
    lastCall.op = "handler" =>
        LET req == lastCall.req
        IN  IF lastCall.state = "awaiting"
            THEN /\ lastCall.sent = <<>>
                 /\ Len(lastCall.executeQueryCalls) = 1
            ELSE /\ Len(lastCall.sent) = 1
                 /\ lastCall.sent[1].status =
                        IF req.method # "POST" THEN 405
                        ELSE IF ~HasConnection(req) THEN 401
                        ELSE IF ~HasQuery(req) THEN 400
                        ELSE IF "error" \in DOMAIN lastCall.sent[1].json
                             THEN 500 ELSE 200
                 /\ lastCall.sent[1].status \in {405, 401, 400}
                        => lastCall.executeQueryCalls = <<>>
                 /\ lastCall.sent[1].status \in {200, 500}
                        => Len(lastCall.executeQueryCalls) = 1
====
